---- MODULE Spec2Model ----
(***************************************************************************)
(* A model of scripts/sync-environment-branches.py: the retrying git       *)
(* executor, the worktree parser, the branch comparison, the manifest      *)
(* fixer and the sync_branches run.                                        *)
(*                                                                         *)
(* Text is modelled as a sequence of one-character strings, so that        *)
(* str.split, str.splitlines, str.startswith and slicing are computed on   *)
(* characters, as Python computes them.                                    *)
(***************************************************************************)
EXTENDS Integers, Sequences, FiniteSets, TLC

VARIABLES
    pc,            \* position of the modelled call or run
    remote_refs,   \* repo.remote().refs: the names of the remote references
    heads,         \* repo.heads / repo.branches: the names of the local branches
    common,        \* compare_branches: first component of the result
    remote_only,   \* compare_branches: second component
    local_only,    \* compare_branches: third component
    listing,       \* the worktree lines, as columns, from which `out` is printed
    out,           \* stdout of `git worktree list`, as text
    worktrees,     \* parse_worktrees(out): branch name -> path
    git,           \* one call of run_git or run_git_cmd and its retries
    target,        \* the target branch given on the command line
    log,           \* what the run did, in order: commands, writes, lines echoed
    dry_run,       \* --dry-run
    sync,          \* --sync / --no-sync
    prune,         \* --prune
    legacy_packaging,  \* whether the installed packaging still has LegacyVersion
    tree,          \* tree[b][n]: what config/<n>.yaml holds where branch b is checked out
    active_branch, \* repo.active_branch.name of the primary repository
    existing_branches, \* process_remote_refs: the local branch names, taken before the loop
    todo,          \* process_remote_refs: the remote refs still to visit
    prune_todo,    \* prune_local_branches: the branches still to visit
    cur,           \* process_branch: the ref, the branch, the path and the manifest read
    exc,           \* the exception on its way to the handler of sync_branches, and where it rose
    faults,        \* the git commands of the run that did not exit 0, in order
    exit_code,     \* the exit code of the run, once it is over
    fixed          \* what the last call of fix_manifest returned or raised

vars == <<pc, remote_refs, heads, common, remote_only, local_only,
          listing, out, worktrees, git, target, log, dry_run, sync, prune,
          legacy_packaging, tree, active_branch, existing_branches, todo,
          prune_todo, cur, exc, faults, exit_code, fixed>>

----------------------------------------------------------------------------
(* Python strings *)

\* the concatenation of a sequence of strings
RECURSIVE Cat(_)
Cat(ss) == IF ss = <<>> THEN <<>> ELSE Head(ss) \o Cat(Tail(ss))

\* s[i:j] with 0-based i, j already clipped to 0..len(s)
Slice(s, i, j) == IF j <= i THEN <<>> ELSE SubSeq(s, i + 1, j)

\* str.startswith
StartsWith(s, p) == Len(s) >= Len(p) /\ SubSeq(s, 1, Len(p)) = p

\* str.endswith
EndsWith(s, p) == Len(s) >= Len(p) /\ SubSeq(s, Len(s) - Len(p) + 1, Len(s)) = p

\* str.find: the 0-based index of the first occurrence of sep from `from`, or -1
RECURSIVE Find(_, _, _)
Find(s, sep, from) ==
    IF from + Len(sep) > Len(s) THEN -1
    ELSE IF SubSeq(s, from + 1, from + Len(sep)) = sep THEN from
    ELSE Find(s, sep, from + 1)

\* str.split(sep, maxsplit): maxsplit = -1 is "no limit"
RECURSIVE Split(_, _, _)
Split(s, sep, maxsplit) ==
    LET i == Find(s, sep, 0)
    IN  IF maxsplit = 0 \/ i = -1 THEN <<s>>
        ELSE <<Slice(s, 0, i)>>
             \o Split(Slice(s, i + Len(sep), Len(s)), sep,
                      IF maxsplit = -1 THEN -1 ELSE maxsplit - 1)

\* "sep".join(parts)
RECURSIVE Join(_, _)
Join(parts, sep) ==
    IF parts = <<>> THEN <<>>
    ELSE IF Len(parts) = 1 THEN parts[1]
    ELSE parts[1] \o sep \o Join(Tail(parts), sep)

\* the elements of a sequence that are not the empty string
RECURSIVE NonEmpty(_)
NonEmpty(ss) ==
    IF ss = <<>> THEN <<>>
    ELSE (IF Head(ss) = <<>> THEN <<>> ELSE <<Head(ss)>>) \o NonEmpty(Tail(ss))

\* str.split() without arguments: runs of whitespace separate, no empty strings
SplitWhitespace(s) == NonEmpty(Split(s, <<" ">>, -1))

\* str.splitlines(): a final line break opens no further line
SplitLines(s) ==
    LET parts == Split(s, <<"\n">>, -1)
    IN  IF parts[Len(parts)] = <<>> THEN SubSeq(parts, 1, Len(parts) - 1)
        ELSE parts

Range(f) == { f[i] : i \in DOMAIN f }

\* the elements of `order` that are in S, in the order of `order`
RECURSIVE InOrder(_, _)
InOrder(order, S) ==
    IF order = <<>> THEN <<>>
    ELSE (IF Head(order) \in S THEN <<Head(order)>> ELSE <<>>) \o InOrder(Tail(order), S)

\* the element of a set of one element; The({ e(x) : x \in {v} }) is e(v) with v
\* computed once
The(S) == CHOOSE x \in S : TRUE

\* the sequences over S of length 0..n
SeqsUpTo(S, n) == UNION { [1..k -> S] : k \in 0..n }

----------------------------------------------------------------------------
(* Names used by the model's repositories *)

DD == <<"-", "-">>
HEAD == <<"H", "E", "A", "D">>
ORIGIN == <<"o", "r", "i", "g", "i", "n">>
main == <<"m", "a", "i", "n">>
master == <<"m", "a", "s", "t", "e", "r">>

\* "<remote>/<branch>"
RemoteName(remote, branch) == remote \o <<"/">> \o branch

\* "a--b--c--d", "a--b" and two names without segments
ENV4 == Join(<< <<"a">>, <<"b">>, <<"c">>, <<"d">> >>, DD)
ENV2 == Join(<< <<"a">>, <<"b">> >>, DD)
FEATURE == <<"f", "/", "x">>
SCRATCH == <<"x">>

----------------------------------------------------------------------------
(* compare_branches *)

get_branch_shortname(branch_name) ==
    LET parts == Split(branch_name, <<"/">>, 1)
    IN  IF Len(parts) > 1 THEN parts[2] ELSE branch_name

remote_branches(refs) ==
    { get_branch_shortname(r) : r \in { x \in refs : ~EndsWith(x, HEAD) } }

local_branches(hs) == { h \in hs : ~EndsWith(h, HEAD) }

\* a comparison that takes every name for common
compare_result_union(refs, hs) ==
    [common      |-> remote_branches(refs) \cup local_branches(hs),
     remote_only |-> remote_branches(refs) \ local_branches(hs),
     local_only  |-> local_branches(hs) \ remote_branches(refs)]

\* common = remote & local; remote_only = remote - local; local_only = local - remote
compare_result(refs, hs) ==
    [common      |-> remote_branches(refs) \cap local_branches(hs),
     remote_only |-> remote_branches(refs) \ local_branches(hs),
     local_only  |-> local_branches(hs) \ remote_branches(refs)]

----------------------------------------------------------------------------
(* parse_worktrees *)

WORKTREES_COLUMN_COUNT == 3

\* pathlib.Path(s): a value that is not a str (a Path never equals a str)
PathOf(s) == [Path |-> s]

\* worktrees[branch] = path
Put(map, key, value) ==
    [k \in DOMAIN map \cup {key} |-> IF k = key THEN value ELSE map[k]]

\* branch = parts[2]; if branch.startswith("["): branch = branch[1:-1]
worktree_branch(col) ==
    IF StartsWith(col, <<"[">>)
    THEN Slice(col, 1, IF Len(col) - 1 < 0 THEN 0 ELSE Len(col) - 1)
    ELSE col

RECURSIVE parse_worktree_lines(_, _)
parse_worktree_lines(lines, map) ==
    IF lines = <<>> THEN map
    ELSE LET parts == SplitWhitespace(Head(lines))
         IN  parse_worktree_lines(
                 Tail(lines),
                 IF Len(parts) = WORKTREES_COLUMN_COUNT
                 THEN Put(map, worktree_branch(parts[3]), PathOf(parts[1]))
                 ELSE map)

parse_worktrees(text) == parse_worktree_lines(SplitLines(text), <<>>)

\* `git worktree list` prints one line per worktree, the path padded
PrintWorktreeLine(cols) ==
    IF cols = <<>> THEN <<>>
    ELSE cols[1] \o (IF Len(cols) > 1 THEN <<" ", " ">> \o Join(Tail(cols), <<" ">>) ELSE <<>>)

RECURSIVE PrintWorktreeList(_)
PrintWorktreeList(ls) ==
    IF ls = <<>> THEN <<>>
    ELSE PrintWorktreeLine(Head(ls)) \o <<"\n">> \o PrintWorktreeList(Tail(ls))

----------------------------------------------------------------------------
(* environment branch names *)

SEGMENTS == 4

\* segments = name.split("--", maxsplit=3)
branch_segments(name) == Split(name, DD, 3)

is_environment_branch(name) == Len(branch_segments(name)) = SEGMENTS

----------------------------------------------------------------------------
(* run_git_cmd and run_git under backoff.on_exception *)

THROTTLED_BACKOFF_MAX_TIME == 5
THROTTLED_BACKOFF_MAX_TRIES == 3

\* the longest one execution of the git binary takes, in seconds
MaxCmdTime == 5

\* What one execution of getattr(repo.git, cmd)(...) does: it raises
\* GitCommandError (the transient error the decorators retry), or it returns
\* (rc, out, err); `err` is whether stderr holds text, `fail` whether a fail_on
\* string occurs in stdout.
Raised == [raised |-> TRUE, rc |-> 0, err |-> FALSE, fail |-> FALSE]
Returned(rc, err, fail) == [raised |-> FALSE, rc |-> rc, err |-> err, fail |-> fail]
CmdOutcomes ==
    {Raised, Returned(0, FALSE, FALSE)}
    \cup { Returned(1, err, fail) : err \in BOOLEAN, fail \in BOOLEAN }

\* backoff.expo: 1, 2, 4, ... for the 1st, 2nd, 3rd failure
expo(tries) == 2 ^ (tries - 1)

\* backoff._next_wait with full jitter: any wait up to the generator's value,
\* and never longer than the time that is left
next_waits(tries, elapsed) ==
    LET value == expo(tries)
        left  == THROTTLED_BACKOFF_MAX_TIME - elapsed
    IN  0 .. (IF value < left THEN value ELSE left)

\* a policy that gives up one try later than max_tries
giveup_late(tries, elapsed) ==
    \/ tries = THROTTLED_BACKOFF_MAX_TRIES + 1
    \/ elapsed >= THROTTLED_BACKOFF_MAX_TIME

giveup(tries, elapsed) ==
    \/ tries = THROTTLED_BACKOFF_MAX_TRIES
    \/ elapsed >= THROTTLED_BACKOFF_MAX_TIME

\* run_git after run_git_cmd returned (rc, out, err): "return", "GitCommandError"
\* or "Exit"
run_git_body(res, check_rc, fail_on, exit_on_error) ==
    IF check_rc /\ res.rc # 0
    THEN IF fail_on /\ res.fail /\ exit_on_error THEN "Exit"
         ELSE IF res.err THEN "GitCommandError"
         ELSE "return"
    ELSE "return"

\* a decorator's retry loop at the top of its first iteration: the tries so far,
\* the seconds elapsed when this try began, the backoff notices echoed
NewLoop(now) == [tries |-> 1, start |-> now, elapsed |-> 0, notices |-> 0]

NoCall ==
    [pc |-> "idle", entry |-> "none", check_rc |-> TRUE, fail_on |-> FALSE,
     exit_on_error |-> TRUE, now |-> 0, outer |-> NewLoop(0), inner |-> NewLoop(0),
     last |-> Raised, first |-> Raised, execs |-> 0, cmd_calls |-> {}, giveups |-> {},
     result |-> "none", rc |-> 0]

GitFrame ==
    UNCHANGED <<pc, remote_refs, heads, common, remote_only, local_only,
                listing, out, worktrees, target, log, dry_run, sync, prune,
                legacy_packaging, tree, active_branch, existing_branches, todo,
                prune_todo, cur, exc, faults, exit_code, fixed>>

\* the caller calls run_git(...) or, as initialize_repo does, run_git_cmd(...)
GitCall(entry, check_rc, fail_on, exit_on_error) ==
    /\ git.pc = "idle"
    /\ git' = [NoCall EXCEPT !.pc = "exec", !.entry = entry, !.check_rc = check_rc,
                             !.fail_on = fail_on, !.exit_on_error = exit_on_error]
    /\ GitFrame

\* one execution of the git binary inside run_git_cmd, taking d seconds
GitExecute(res, d) ==
    /\ git.pc = "exec"
    /\ git' = [git EXCEPT !.pc = "cmd_retry", !.last = res, !.now = @ + d,
                          !.first = IF git.execs = 0 THEN res ELSE @,
                          !.execs = @ + 1]
    /\ GitFrame

\* the record of one finished call of the decorated run_git_cmd: how many
\* executions raised before the last one, what the last one did, what the call
\* gave its caller and what it echoed
CmdCall(loop, raised, res, gave_up) ==
    [failed_before |-> loop.tries - 1, last |-> res, raised |-> raised,
     notices |-> loop.notices, giveup_tries |-> gave_up]

\* the retry loop around run_git_cmd, after the execution
GitCmdRetry(w) ==
    /\ git.pc = "cmd_retry"
    /\ IF ~git.last.raised
       THEN \* on_success: (rc, out, err) goes back to the caller
            /\ w = 0
            /\ git' = [git EXCEPT
                 !.pc = IF git.entry = "run_git" THEN "body" ELSE "done",
                 !.result = IF git.entry = "run_git" THEN @ ELSE "return",
                 !.rc = git.last.rc,
                 !.cmd_calls = @ \cup {CmdCall(git.inner, FALSE, git.last, 0)}]
       ELSE IF giveup(git.inner.tries, git.inner.elapsed)
       THEN \* on_giveup, then the exception is raised again
            /\ w = 0
            /\ git' = [git EXCEPT
                 !.pc = IF git.entry = "run_git" THEN "retry" ELSE "done",
                 !.result = IF git.entry = "run_git" THEN @ ELSE "GitCommandError",
                 !.giveups = @ \cup {[by |-> "run_git_cmd", tries |-> git.inner.tries]},
                 !.cmd_calls = @ \cup {CmdCall(git.inner, TRUE, git.last, git.inner.tries)}]
       ELSE \* on_backoff, sleep, next iteration
            /\ w \in next_waits(git.inner.tries, git.inner.elapsed)
            /\ git' = [git EXCEPT
                 !.pc = "exec",
                 !.now = @ + w,
                 !.inner.notices = @ + 1,
                 !.inner.tries = @ + 1,
                 !.inner.elapsed = (git.now + w) - git.inner.start]
    /\ GitFrame

\* run_git's own statements, after run_git_cmd returned
GitBody ==
    /\ git.pc = "body"
    /\ LET how == run_git_body(git.last, git.check_rc, git.fail_on, git.exit_on_error)
       IN  git' = [git EXCEPT
             !.pc = IF how = "GitCommandError" THEN "retry" ELSE "done",
             !.result = IF how = "GitCommandError" THEN @ ELSE how]
    /\ GitFrame

\* the retry loop around run_git, on a GitCommandError out of run_git
GitRetry(w) ==
    /\ git.pc = "retry"
    /\ IF giveup(git.outer.tries, git.outer.elapsed)
       THEN /\ w = 0
            /\ git' = [git EXCEPT
                 !.pc = "done",
                 !.result = "GitCommandError",
                 !.giveups = @ \cup {[by |-> "run_git", tries |-> git.outer.tries]}]
       ELSE /\ w \in next_waits(git.outer.tries, git.outer.elapsed)
            /\ git' = [git EXCEPT
                 !.pc = "exec",
                 !.now = @ + w,
                 !.outer.notices = @ + 1,
                 !.outer.tries = @ + 1,
                 !.outer.elapsed = (git.now + w) - git.outer.start,
                 !.inner = NewLoop(git.now + w)]
    /\ GitFrame

----------------------------------------------------------------------------
(* Documents: the values a YAML manifest holds.  Each kind of value is a     *)
(* record with its own field, so that a str never equals a bool or a list.  *)

Str(s) == [str |-> s]
Bool(b) == [bool |-> b]
Num(n) == [num |-> n]
List(l) == [list |-> l]
Map(m) == [map |-> m]
Null == [null |-> TRUE]

IsStr(v) == DOMAIN v = {"str"}
IsBool(v) == DOMAIN v = {"bool"}
IsNum(v) == DOMAIN v = {"num"}
IsList(v) == DOMAIN v = {"list"}
IsMap(v) == DOMAIN v = {"map"}
IsNull(v) == DOMAIN v = {"null"}

EmptyMap == Map(<<>>)

\* bool(v)
Truthy(v) ==
    IF IsStr(v) THEN v.str # <<>>
    ELSE IF IsBool(v) THEN v.bool
    ELSE IF IsNum(v) THEN v.num # 0
    ELSE IF IsList(v) THEN v.list # <<>>
    ELSE IF IsMap(v) THEN DOMAIN v.map # {}
    ELSE FALSE

Has(m, key) == key \in DOMAIN m.map

\* m.get(key, default)
Get(m, key, default) == IF Has(m, key) THEN m.map[key] ELSE default

\* m[key] = value
Set(m, key, value) == Map(Put(m.map, key, value))

\* del m[key], for a key that m has
Del(m, key) == Map([k \in DOMAIN m.map \ {key} |-> m.map[k]])

----------------------------------------------------------------------------
(* validate_manifest *)

MFT_MIN_LEN == 2
APP_MANIFEST_VERSION == <<"0", ".", "5", ".", "1">>

DigitChars == <<"0", "1", "2", "3", "4", "5", "6", "7", "8", "9">>
IsDigit(c) == c \in Range(DigitChars)
DigitValue(c) == (CHOOSE i \in DOMAIN DigitChars : DigitChars[i] = c) - 1

\* re.match(r"^(\d+\.?)+$", s): digits and dots, a digit first, no two dots in a row
IsDottedNumeric(s) ==
    /\ s # <<>>
    /\ IsDigit(s[1])
    /\ \A i \in DOMAIN s : IsDigit(s[i]) \/ s[i] = "."
    /\ \A i \in 1..(Len(s) - 1) : ~(s[i] = "." /\ s[i + 1] = ".")

\* int(digits)
RECURSIVE IntOf(_)
IntOf(ds) == IF ds = <<>> THEN 0 ELSE 10 * IntOf(SubSeq(ds, 1, Len(ds) - 1)) + DigitValue(ds[Len(ds)])

\* packaging.version.Version(s) for the versions of the model: a release
\* "N(.N)*"; anything else is an InvalidVersion
IsVersion(s) ==
    LET parts == Split(s, <<".">>, -1)
    IN  \A i \in DOMAIN parts : parts[i] # <<>> /\ \A j \in DOMAIN parts[i] : IsDigit(parts[i][j])

Release(s) == LET parts == Split(s, <<".">>, -1) IN [i \in DOMAIN parts |-> IntOf(parts[i])]

\* the i-th number of a release, 0 beyond its end
ReleaseAt(r, i) == IF i \in DOMAIN r THEN r[i] ELSE 0

\* Version(a) >= Version(b)
VersionGE(a, b) ==
    LET ra == Release(a)
        rb == Release(b)
        n  == IF Len(ra) > Len(rb) THEN Len(ra) ELSE Len(rb)
        differ == { i \in 1..n : ReleaseAt(ra, i) # ReleaseAt(rb, i) }
    IN  IF differ = {} THEN TRUE
        ELSE LET i == CHOOSE k \in differ : \A l \in differ : k <= l
             IN  ReleaseAt(ra, i) > ReleaseAt(rb, i)

\* SpecifierSet(f">={APP_MANIFEST_VERSION}").contains(v): "yes", "no" or "raise".
\* A value that is no version raises InvalidVersion (TypeError if it is no str);
\* a packaging with LegacyVersion answers False for a str that is no version.
spec_contains(v, legacy) ==
    IF ~IsStr(v) THEN "raise"
    ELSE IF ~IsVersion(v.str) THEN (IF legacy THEN "no" ELSE "raise")
    ELSE IF VersionGE(v.str, APP_MANIFEST_VERSION) THEN "yes" ELSE "no"

\* the name or version of an entry for re.match: "text", or "raise" for a value
\* that is no str (re.match raises TypeError)
Matchable(v) == IsStr(v)

\* mft in good_manifests: "yes", "no" or "raise"
is_good(mft, legacy) ==
    IF Cardinality(DOMAIN mft.map) < MFT_MIN_LEN THEN "no"
    ELSE IF ~Matchable(Get(mft, "name", Str(<<>>))) THEN "raise"
    ELSE IF IsDottedNumeric(Get(mft, "name", Str(<<>>)).str) THEN "no"
    ELSE IF ~Matchable(Get(mft, "version", Str(<<>>))) THEN "raise"
    ELSE IF ~IsDottedNumeric(Get(mft, "version", Str(<<>>)).str) THEN "no"
    ELSE spec_contains(mft.map["version"], legacy)

\* mft in bad_manifests: "yes", "no" or "raise"
is_bad(mft, legacy) ==
    IF Cardinality(DOMAIN mft.map) < MFT_MIN_LEN THEN "yes"
    ELSE IF ~Matchable(Get(mft, "name", Str(APP_MANIFEST_VERSION))) THEN "raise"
    ELSE IF IsDottedNumeric(Get(mft, "name", Str(APP_MANIFEST_VERSION)).str) THEN "yes"
    ELSE "no"

\* validate_manifest(data, spec): the two lists, or an exception out of a comprehension
validate_manifest(manifests, legacy) ==
    IF \E i \in DOMAIN manifests :
          is_good(manifests[i], legacy) = "raise" \/ is_bad(manifests[i], legacy) = "raise"
    THEN [exc |-> "Exception", good |-> <<>>, bad |-> <<>>]
    ELSE [exc |-> "none",
          good |-> InOrder(manifests, { m \in Range(manifests) : is_good(m, legacy) = "yes" }),
          bad  |-> InOrder(manifests, { m \in Range(manifests) : is_bad(m, legacy) = "yes" })]

----------------------------------------------------------------------------
(* fix_manifest *)

client == <<"c", "l", "i", "e", "n", "t">>
ldx == <<"l", "d", "x">>
assets == <<"a", "s", "s", "e", "t", "s">>
true == <<"t", "r", "u", "e">>
false == <<"f", "a", "l", "s", "e">>

\* the text of the VERSION file, stripped
VERSION == <<"1", ".", "2", ".", "3">>

Mft(name, version) == Map([name |-> Str(name), version |-> Str(version)])

DEFAULT_MANIFESTS == <<Mft(client, APP_MANIFEST_VERSION), Mft(ldx, APP_MANIFEST_VERSION)>>

DEFAULT_DEPLOYMENT_TEMPLATES ==
    List(<<Str(<<"l", "d", "x", "-", "h", "e", "l", "m">>),
           Str(<<"l", "d", "x", "-", "d", "a", "t", "a", "b", "a", "s", "e", "-", "a", "d", "m", "i", "n">>)>>)

EXTRA_DEPLOYMENT_TEMPLATES ==
    {<<"l", "d", "x", "-", "d", "a", "t", "a", "b", "a", "s", "e", "-", "a", "d", "m", "i", "n">>}

NOTES ==
    List(<<Str(<<"u", "p", "d", "a", "t", "e", "d", ":">>), Str(<<"d", "a", "t", "e">>)>>)

\* "config/<branch>.yaml"
manifest_file(branch) ==
    <<"c", "o", "n", "f", "i", "g", "/">> \o branch \o <<".", "y", "a", "m", "l">>

\* the last index of character c in s, or 0
LastIndex(s, c) ==
    IF \E i \in DOMAIN s : s[i] = c
    THEN CHOOSE i \in DOMAIN s : s[i] = c /\ \A j \in DOMAIN s : s[j] = c => j <= i
    ELSE 0

\* pathlib.Path(file).stem: the last component without its last suffix
Stem(file) ==
    LET name == Slice(file, LastIndex(file, "/"), Len(file))
        dot  == LastIndex(name, ".")
    IN  IF dot > 1 THEN Slice(name, 0, dot - 1) ELSE name

\* is_ldx = not any(name for name in ["assets"] if name in file)
is_ldx_file(file) == Find(file, assets, 0) = -1

\* str.lower() on the letters of the model
LowerChar(c) ==
    CASE c = "T" -> "t" [] c = "R" -> "r" [] c = "U" -> "u" [] c = "E" -> "e"
      [] c = "F" -> "f" [] c = "A" -> "a" [] c = "L" -> "l" [] c = "S" -> "s"
      [] OTHER -> c
Lower(s) == [i \in DOMAIN s |-> LowerChar(s[i])]

\* convert_booleans(data)
RECURSIVE convert_booleans(_)
convert_booleans(data) ==
    IF ~IsMap(data) THEN data
    ELSE Map([key \in DOMAIN data.map |->
              LET value == data.map[key]
              IN  IF IsMap(value) THEN convert_booleans(value)
                  ELSE IF IsList(value)
                  THEN List([i \in DOMAIN value.list |-> convert_booleans(value.list[i])])
                  ELSE IF IsStr(value)
                  THEN (IF Lower(value.str) = true THEN Bool(TRUE)
                        ELSE IF Lower(value.str) = false THEN Bool(FALSE)
                        ELSE value)
                  ELSE value])

\* data.get("ldx", {}).get(tier, {}).get("database_reset", None): a .get on a
\* value that is no mapping raises AttributeError
tier_chain_raises(data, tier) ==
    \/ ~IsMap(Get(data, "ldx", EmptyMap))
    \/ ~IsMap(Get(Get(data, "ldx", EmptyMap), tier, EmptyMap))

has_database_reset(data, tier) ==
    ~IsNull(Get(Get(Get(data, "ldx", EmptyMap), tier, EmptyMap), "database_reset", Null))

drop_database_reset(data, tier) ==
    IF has_database_reset(data, tier)
    THEN Set(data, "ldx", Set(data.map["ldx"], tier, Del(data.map["ldx"].map[tier], "database_reset")))
    ELSE data

DEFAULT_FEATURES ==
    Map([is_deployment |-> Bool(FALSE),
         reset |-> Map([enabled |-> Bool(FALSE), edge |-> Bool(FALSE), studio |-> Bool(FALSE),
                        version |-> Str(<<"{", "l", "d", "x", ".", "v", "e", "r", "s", "i", "o", "n", "}">>)])])

\* process_ldx_features(data): [exc, data]
process_ldx_features(data) ==
    IF tier_chain_raises(data, "edge") \/ tier_chain_raises(data, "studio")
    THEN [exc |-> "Exception", data |-> data]
    ELSE LET d1 == drop_database_reset(drop_database_reset(data, "edge"), "studio")
         IN  [exc |-> "none",
              data |-> IF Truthy(Get(d1, "ldx", EmptyMap))
                          /\ IsNull(Get(d1.map["ldx"], "features", Null))
                       THEN Set(d1, "ldx", Set(d1.map["ldx"], "features", DEFAULT_FEATURES))
                       ELSE d1]

\* process_deployment_templates(metadata): the exception it raises, or "none";
\* the list it computes is not stored
process_deployment_templates(metadata) ==
    IF ~IsMap(Get(metadata, "deployment", EmptyMap)) THEN "Exception"
    ELSE LET dtpls == Get(Get(metadata, "deployment", EmptyMap), "deployment_templates", List(<<>>))
         IN  IF Truthy(dtpls) /\ ~IsList(dtpls) THEN "ValueError" ELSE "none"

\* What a manifest file holds: whether the three merge markers occur in it, and
\* the document its YAML loads to (NotYaml when it does not load)
NotYaml == [invalid |-> TRUE]
Content(markers, doc) == [markers |-> markers, doc |-> doc]

\* a read that rejects nothing
read_file_lenient(content) == "none"

\* read_file(file): "Exit" for a file with unresolved merge markers
read_file(content) == IF content.markers THEN "Exit" ELSE "none"

\* what the run does, in the order it does it
Echo(what, arg) == [op |-> "echo", what |-> what, arg |-> arg]
GitCmd(repo, cmd, arg) == [op |-> "git", what |-> cmd, arg |-> arg, repo |-> repo]
WriteFile(file, text) == [op |-> "write", what |-> "file", arg |-> file, text |-> text]
Call(fn, arg) == [op |-> "call", what |-> fn, arg |-> arg]

\* what run_git gives its caller for the last execution `res` of the command, with
\* the arguments the callers of the script use: "return" or "GitCommandError"
run_git_default(res) ==
    IF res.raised THEN "GitCommandError" ELSE run_git_body(res, TRUE, FALSE, TRUE)

\* what the last execution of a command did, as far as run_git tells them apart:
\* exit 0, a non-zero exit without text on stderr, a non-zero exit with it
LastOutcomes == {Returned(0, FALSE, FALSE), Returned(1, FALSE, FALSE), Returned(1, TRUE, FALSE)}

\* for mft in data.manifests: if not spec.contains(mft.version): mft.version = APP_MANIFEST_VERSION
bump_raises(manifests, legacy) ==
    \E i \in DOMAIN manifests :
        \/ ~Has(manifests[i], "version")
        \/ spec_contains(manifests[i].map["version"], legacy) = "raise"

bump_versions(manifests, legacy) ==
    [i \in DOMAIN manifests |->
        IF spec_contains(manifests[i].map["version"], legacy) = "no"
        THEN Set(manifests[i], "version", Str(APP_MANIFEST_VERSION))
        ELSE manifests[i]]

\* the sub-manifest list after "Handle LDX specific logic": [exc, manifests]
fix_manifests(manifests, is_ldx, legacy) ==
    The({ IF v.exc # "none" THEN [exc |-> v.exc, manifests |-> manifests]
          ELSE IF ~is_ldx THEN [exc |-> "none", manifests |-> manifests]
          ELSE The({ IF bump_raises(replaced, legacy)
                     THEN [exc |-> "Exception", manifests |-> replaced]
                     ELSE [exc |-> "none", manifests |-> bump_versions(replaced, legacy)]
                   : replaced \in {IF v.bad # <<>> THEN DEFAULT_MANIFESTS ELSE manifests} })
        : v \in {validate_manifest(manifests, legacy)} })

\* metadata.deployment = metadata.get("deployment", Mash({...}))
default_deployment(short_name) ==
    Map([application_name |-> Str(<<"l", "i", "v", "e", "-", "d", "e", "a", "l", "e", "r", "-">> \o short_name),
         deployment_templates |-> DEFAULT_DEPLOYMENT_TEMPLATES,
         project_name |-> Str(<<"l", "i", "v", "e", "-", "d", "e", "a", "l", "e", "r">>)])

\* a stamp that appends the two notes to the notes already there
stamp_metadata_append(metadata) ==
    Set(Set(metadata, "notes",
            List((IF IsList(Get(metadata, "notes", Null))
                  THEN metadata.map["notes"].list ELSE <<>>) \o NOTES.list)),
        "version", Str(VERSION))

\* metadata.notes = [...]; metadata.version = VERSION; the deployment_sources key
\* is deleted when its value is true in Python's sense
stamp_metadata(metadata) ==
    LET m == Set(Set(metadata, "notes", NOTES), "version", Str(VERSION))
    IN  IF Truthy(Get(m, "deployment_sources", Null)) THEN Del(m, "deployment_sources") ELSE m

\* text = yamlify(unspecial) + yamlify({"manifests": ...}) + yamlify({"metadata": ...}):
\* the three YAML documents of the text, in the order they are written
serialize(data) ==
    <<[section |-> "unspecial",
       doc |-> convert_booleans(Map([k \in DOMAIN data.map \ {"metadata", "manifests"} |-> data.map[k]]))]>>
    \o (IF Has(data, "manifests")
        THEN <<[section |-> "manifests", doc |-> convert_booleans(data.map["manifests"])]>>
        ELSE <<>>)
    \o <<[section |-> "metadata", doc |-> convert_booleans(data.map["metadata"])]>>

\* a short name that is empty when the stem has too few segments
short_name_padded(segs) ==
    [exc |-> "none", name |-> IF Len(segs) < 3 THEN <<>> ELSE segs[2] \o segs[3]]

\* short_name = pathlib.Path(file).stem.split("--", 4);
\* short_name = f"{short_name[1]}{short_name[2]}": [exc, name]
short_name(segs) ==
    IF Len(segs) < 3 THEN [exc |-> "IndexError", name |-> <<>>]
    ELSE [exc |-> "none", name |-> segs[2] \o segs[3]]

\* The document fix_manifest builds from the loaded one: [exc, data].
\* after the sub-manifest list `manifests` is settled and the stem is split
fix_metadata(doc, is_ldx, manifests, name) ==
    LET metadata0 == Get(doc, "metadata", EmptyMap)
        metadata1 == IF Has(metadata0, "compatibility")
                     THEN Del(metadata0, "compatibility") ELSE metadata0
        raised(e) == [exc |-> e, data |-> doc]
    IN  The({ IF f.exc # "none" THEN raised(f.exc)
              ELSE IF is_ldx /\ process_deployment_templates(metadata2) # "none"
              THEN raised(process_deployment_templates(metadata2))
              ELSE [exc |-> "none", data |-> Set(f.data, "metadata", stamp_metadata(metadata2))]
            : f \in {IF is_ldx
                     THEN process_ldx_features(Set(doc, "manifests", List(manifests)))
                     ELSE [exc |-> "none", data |-> Set(doc, "manifests", List(manifests))]},
              metadata2 \in {IF is_ldx /\ ~Has(metadata1, "deployment")
                             THEN Set(metadata1, "deployment",
                                      default_deployment(name))
                             ELSE metadata1} })

fix_data(file, doc, legacy) ==
    LET raised(e) == [exc |-> e, data |-> doc]
    IN  The({ IF m.exc # "none" THEN raised(m.exc)
              ELSE IF ~IsMap(Get(doc, "metadata", EmptyMap)) THEN raised("Exception")
              ELSE IF sn.exc # "none" THEN raised(sn.exc)
              ELSE fix_metadata(doc, is_ldx, m.manifests, sn.name)
            : is_ldx \in {is_ldx_file(file)},
              sn \in {short_name(Split(Stem(file), DD, 4))},
              m \in {fix_manifests(Get(doc, "manifests", List(DEFAULT_MANIFESTS)).list,
                                   is_ldx_file(file), legacy)} })

\* fix_manifest up to the text it builds (lines 409-471) for a file that holds
\* `content`: [exc, text, data, events]
fix_text(file, content, legacy) ==
    LET raised(e, events) ==
            [exc |-> e, text |-> <<>>, data |-> EmptyMap, events |-> events]
    IN  IF read_file(content) # "none"
        THEN raised("Exit", <<Echo("Unmerged file", file), Echo("Failed to read", file)>>)
        ELSE IF content.doc = NotYaml THEN raised("Exception", <<>>)
        ELSE The({ IF d.exc # "none" THEN raised(d.exc, <<>>)
                   ELSE [exc |-> "none", text |-> serialize(d.data), data |-> d.data,
                         events |-> <<>>]
                 : d \in {fix_data(file, content.doc, legacy)} })

\* the rest of fix_manifest once the text `t` is built, or building it raised:
\* write_file unless dry_run, run_git add, run_git commit, and the handler that
\* echoes "Failed to fix" and raises again
fix_commit(t, file, tgt, dry, add_res, commit_res) ==
    LET failed(e, events) ==
            [exc |-> e, text |-> <<>>, data |-> EmptyMap,
             events |-> events \o <<Echo("Failed to fix", file)>>]
        written == IF dry THEN <<>> ELSE <<WriteFile(file, t.text)>>
        added == written \o <<GitCmd("primary", "add", file)>>
        committed == added \o <<GitCmd("primary", "commit", file \o <<" ">> \o tgt)>>
    IN  IF t.exc # "none" THEN failed(t.exc, t.events)
        ELSE IF run_git_default(add_res) # "return" THEN failed("GitCommandError", added)
        ELSE IF run_git_default(commit_res) # "return"
        THEN failed("GitCommandError", committed)
        ELSE [exc |-> "none", text |-> t.text, data |-> t.data, events |-> committed]

\* fix_manifest(file, repo, target, verbose, dry_run) on a file that holds
\* `content`, with what the executions of `git add` and `git commit` do:
\* [exc, text, data, events]
fix_manifest(file, content, tgt, dry, legacy, add_res, commit_res) ==
    The({ fix_commit(t, file, tgt, dry, add_res, commit_res)
        : t \in {fix_text(file, content, legacy)} })

\* the document a text of three YAML sections loads to
load(text) ==
    Map([k \in DOMAIN text[1].doc.map \cup {"manifests", "metadata"} |->
           IF k = "manifests" THEN text[2].doc
           ELSE IF k = "metadata" THEN text[3].doc
           ELSE text[1].doc.map[k]])

\* what a file holds after `text` was written to it
file_content(text) ==
    IF Len(text) = 1 THEN Content(FALSE, text[1].doc) ELSE Content(FALSE, load(text))

----------------------------------------------------------------------------
(* print_environment_branches and the filter of process_remote_refs *)

\* for ref in repo.branches: ... typer.echo(f"Existing branch: {ref.name}")
RECURSIVE print_environment_branches(_)
print_environment_branches(branches) ==
    IF branches = <<>> THEN <<>>
    ELSE (IF is_environment_branch(Head(branches))
          THEN <<[op |-> "echo", what |-> "Existing branch", arg |-> Head(branches)]>>
          ELSE <<>>)
         \o print_environment_branches(Tail(branches))

\* remote, *branch = branch.split("/"); branch = "/".join(branch)
ref_branch(ref_name) ==
    IF Find(ref_name, <<"/">>, 0) # -1
    THEN Join(Tail(Split(ref_name, <<"/">>, -1)), <<"/">>)
    ELSE ref_name

\* ref.name != target and ref.name not in existing_branches
ref_selected(ref_name, tgt, existing) ==
    ref_name # tgt /\ ref_name \notin existing

\* whether process_remote_refs hands the ref to process_branch
ref_processed(ref_name, tgt, existing) ==
    /\ ref_selected(ref_name, tgt, existing)
    /\ is_environment_branch(ref_branch(ref_name))

----------------------------------------------------------------------------
(* The specifications of the functions, each on inputs drawn from a bounded set *)

NoCompare == common = {} /\ remote_only = {} /\ local_only = {}
NoWorktrees == listing = <<>> /\ out = <<>> /\ worktrees = <<>>
NoRepo == remote_refs = {} /\ heads = {}
NoCur == [ref |-> <<>>, branch |-> <<>>, in_worktree |-> FALSE, manifest |-> Content(FALSE, NotYaml)]
NoFix == [exc |-> "none", text |-> <<>>, data |-> EmptyMap, events |-> <<>>]
NoExc == [kind |-> "none", at |-> "none"]
NoRun ==
    /\ target = main /\ log = <<>>
    /\ dry_run = FALSE /\ sync = TRUE /\ prune = FALSE /\ legacy_packaging = FALSE
    /\ tree = <<>> /\ active_branch = main /\ existing_branches = {} /\ todo = <<>>
    /\ prune_todo = {} /\ cur = NoCur /\ exc = NoExc /\ faults = <<>>
    /\ exit_code = 0 /\ fixed = NoFix
FnFrame ==
    UNCHANGED <<git, target, dry_run, sync, prune, legacy_packaging, tree, active_branch,
                existing_branches, todo, prune_todo, cur, exc, faults, exit_code, fixed>>

\* compare_branches ------------------------------------------------------

RemoteRefNames ==
    { RemoteName(ORIGIN, b) : b \in {HEAD, main, ENV4, FEATURE} }
HeadNames == {main, ENV4, FEATURE, SCRATCH, HEAD}

InitCompare ==
    /\ pc = "start"
    /\ remote_refs \in SUBSET RemoteRefNames
    /\ heads \in SUBSET HeadNames
    /\ NoCompare /\ NoWorktrees /\ NoRun /\ git = NoCall

CompareBranches ==
    /\ pc = "start"
    /\ pc' = "done"
    /\ LET r == compare_result(remote_refs, heads)
       IN  common' = r.common /\ remote_only' = r.remote_only /\ local_only' = r.local_only
    /\ UNCHANGED <<remote_refs, heads, listing, out, worktrees, log>>
    /\ FnFrame

SpecCompare == InitCompare /\ [][CompareBranches]_vars

\* parse_worktrees -------------------------------------------------------

\* the most lines of a worktree listing
MaxLines == 2

WorktreePaths == { <<"/", "p">>, <<"/", "q">> }
WorktreeThird ==
    { <<"[", "a", "]">>, <<"[", "b", "]">>, <<"a">>, <<"[", "a">>, <<"a", "]">>, <<"[">> }
WorktreeLines ==
    {<<>>}
    \cup { <<p>> : p \in WorktreePaths }
    \cup { <<p, <<"h">> >> : p \in WorktreePaths }
    \cup { <<p, <<"h">>, b>> : p \in WorktreePaths, b \in WorktreeThird }
    \cup { <<p, <<"h">>, b, <<"x">> >> : p \in WorktreePaths, b \in WorktreeThird }

InitWorktrees ==
    /\ pc = "start"
    /\ listing \in SeqsUpTo(WorktreeLines, MaxLines)
    /\ out = PrintWorktreeList(listing)
    /\ worktrees = <<>>
    /\ NoRepo /\ NoCompare /\ NoRun /\ git = NoCall

ParseWorktrees ==
    /\ pc = "start"
    /\ pc' = "done"
    /\ worktrees' = parse_worktrees(out)
    /\ UNCHANGED <<remote_refs, heads, common, remote_only, local_only, listing, out, log>>
    /\ FnFrame

SpecWorktrees == InitWorktrees /\ [][ParseWorktrees]_vars

\* environment branch names ----------------------------------------------

\* the longest branch name
MaxNameLen == 13

\* names of letters and dashes, with a letter first and last and no three dashes in a row
BranchNames ==
    { n \in SeqsUpTo({"a", "-"}, MaxNameLen) :
        /\ n # <<>> /\ n[1] = "a" /\ n[Len(n)] = "a"
        /\ Find(n, <<"-", "-", "-">>, 0) = -1 }

InitSegments ==
    /\ pc = "start"
    /\ \E n \in BranchNames :
          /\ heads = {n}
          /\ remote_refs = {RemoteName(ORIGIN, n)}
    /\ NoCompare /\ NoWorktrees /\ NoRun /\ git = NoCall

PrintEnvironmentBranches ==
    /\ pc = "start"
    /\ pc' = "printed"
    /\ log' = log \o print_environment_branches(InOrder(<<CHOOSE n \in heads : TRUE>>, heads))
    /\ UNCHANGED <<remote_refs, heads, common, remote_only, local_only,
                   listing, out, worktrees>>
    /\ FnFrame

SelectRemoteRefs ==
    /\ pc = "printed"
    /\ pc' = "done"
    /\ log' = log \o
         LET r == CHOOSE x \in remote_refs : TRUE
         IN  IF ref_processed(r, target, heads)
             THEN <<Echo("<-", ref_branch(r)), Call("process_branch", ref_branch(r))>>
             ELSE <<>>
    /\ UNCHANGED <<remote_refs, heads, common, remote_only, local_only,
                   listing, out, worktrees>>
    /\ FnFrame

SpecSegments == InitSegments /\ [][PrintEnvironmentBranches \/ SelectRemoteRefs]_vars

\* run_git and run_git_cmd -----------------------------------------------

InitGit ==
    /\ pc = "start"
    /\ git = NoCall
    /\ NoRepo /\ NoCompare /\ NoWorktrees /\ NoRun

GitNext ==
    \/ GitCall("run_git_cmd", TRUE, FALSE, TRUE)
    \/ \E check_rc \in BOOLEAN, fail_on \in BOOLEAN, exit_on_error \in BOOLEAN :
          GitCall("run_git", check_rc, fail_on, exit_on_error)
    \/ \E res \in CmdOutcomes, d \in {0, MaxCmdTime} : GitExecute(res, d)
    \/ \E w \in 0..THROTTLED_BACKOFF_MAX_TIME : GitCmdRetry(w)
    \/ GitBody
    \/ \E w \in 0..THROTTLED_BACKOFF_MAX_TIME : GitRetry(w)

SpecGit == InitGit /\ [][GitNext]_vars

\* fix_manifest ----------------------------------------------------------

\* the most entries of a sub-manifest list
MaxManifests == 2

ASSETS4 == Join(<<assets, <<"b">>, <<"c">>, <<"d">> >>, DD)
FixBranches == {ENV4, ASSETS4, ENV2}

VersionTexts ==
    { APP_MANIFEST_VERSION, <<"0", ".", "3", ".", "0">>, <<"0", ".", "6", ".", "0">>,
      <<"1", ".">>, <<"a", "b", "c">> }

\* sub-manifest entries: a name and a version, a single field, a numeric name,
\* no name, no version, a version that YAML loaded as a number
MftEntries ==
    { Mft(client, v) : v \in VersionTexts }
    \cup { Map([name |-> Str(client)]),
           Mft(<<"1", ".", "2">>, APP_MANIFEST_VERSION),
           Map([version |-> Str(APP_MANIFEST_VERSION), kind |-> Str(client)]),
           Map([name |-> Str(client), kind |-> Str(client)]),
           Map([name |-> Str(client), version |-> Num(1)]) }

Doc(fields) == Map(fields)

ManifestDocs ==
    { Doc([manifests |-> List(l)]) : l \in SeqsUpTo(MftEntries, MaxManifests) }

MetadataValues ==
    { EmptyMap,
      Str(<<"x">>),
      Map([compatibility |-> Str(<<"x">>), notes |-> List(<<Str(<<"n">>)>>)]),
      Map([deployment_sources |-> List(<<Str(<<"s">>)>>)]),
      Map([deployment_sources |-> List(<<>>)]),
      Map([deployment |-> Str(<<"x">>)]),
      Map([deployment |-> EmptyMap]),
      Map([deployment |-> Map([deployment_templates |-> Str(<<"x">>)])]),
      Map([deployment |-> Map([deployment_templates |-> Str(<<>>)])]),
      Map([deployment |-> Map([deployment_templates |-> List(<<Str(<<"x">>)>>)])]),
      Map([flag |-> Str(<<"T", "r", "u", "e">>),
           flags |-> List(<<Str(false), Map([on |-> Str(true)])>>)]) }

LdxValues ==
    { EmptyMap,
      Str(<<"x">>),
      Map([edge |-> Str(<<"x">>)]),
      Map([edge |-> Map([database_reset |-> Bool(TRUE), keep |-> Str(true)])]),
      Map([studio |-> Map([database_reset |-> Bool(FALSE)]),
           features |-> Map([is_deployment |-> Bool(TRUE)])]),
      Map([features |-> EmptyMap]) }

OtherDocs ==
    { EmptyMap }
    \cup { Doc([metadata |-> m]) : m \in MetadataValues }
    \cup { Doc([ldx |-> v]) : v \in LdxValues }
    \cup { Doc([ldx |-> v, metadata |-> Map([deployment |-> EmptyMap])]) : v \in LdxValues }

\* metadata already stamped with the current version, with no compatibility and
\* no deployment_sources key
NormalMetadata ==
    { Map([version |-> Str(VERSION)]),
      Map([version |-> Str(VERSION), notes |-> NOTES,
           flag |-> Str(<<"T", "r", "u", "e">>)]),
      Map([version |-> Str(VERSION),
           deployment |-> Map([deployment_templates |-> List(<<Str(<<"x">>)>>),
                               on |-> Str(false)])]),
      Map([version |-> Str(VERSION),
           flags |-> List(<<Str(false), Map([on |-> Str(true)])>>)]) }

NormalizedDocs ==
    LET base  == { Doc([metadata |-> m]) : m \in NormalMetadata }
        withM == base \cup { Set(d, "manifests", List(l)) :
                                d \in base, l \in SeqsUpTo(MftEntries, 1) }
    IN  withM \cup { Set(d, "ldx", v) : d \in withM, v \in LdxValues }

FixContents ==
    { Content(FALSE, d) : d \in ManifestDocs \cup OtherDocs \cup NormalizedDocs }
    \cup { Content(FALSE, NotYaml), Content(TRUE, EmptyMap) }

InitFix ==
    /\ pc = "start"
    /\ dry_run \in BOOLEAN
    /\ legacy_packaging \in BOOLEAN
    /\ \E b \in FixBranches, c \in FixContents :
          cur = [ref |-> RemoteName(ORIGIN, b), branch |-> b, in_worktree |-> FALSE,
                 manifest |-> c]
    /\ target = main /\ log = <<>> /\ sync = TRUE /\ prune = FALSE
    /\ tree = <<>> /\ active_branch = main /\ existing_branches = {} /\ todo = <<>>
    /\ prune_todo = {} /\ exc = NoExc /\ faults = <<>> /\ exit_code = 0 /\ fixed = NoFix
    /\ NoRepo /\ NoCompare /\ NoWorktrees /\ git = NoCall

FixManifest ==
    /\ pc = "start"
    /\ pc' = "done"
    /\ \E t \in {fix_text(manifest_file(cur.branch), cur.manifest, legacy_packaging)},
          add_res \in LastOutcomes, commit_res \in LastOutcomes :
          /\ fixed' = fix_commit(t, manifest_file(cur.branch), target, dry_run,
                                 add_res, commit_res)
          /\ log' = log \o fixed'.events
          /\ exc' = [kind |-> fixed'.exc, at |-> "fix_manifest"]
    /\ UNCHANGED <<remote_refs, heads, common, remote_only, local_only, listing, out,
                   worktrees, git, target, dry_run, sync, prune, legacy_packaging, tree,
                   active_branch, existing_branches, todo, prune_todo, cur, faults,
                   exit_code>>

\* fix_manifest run again on the file the first run left: the text it wrote, or
\* the file as it was when the first run was a dry run
FixAgain ==
    /\ pc = "done" /\ fixed.exc = "none"
    /\ pc' = "again"
    /\ \E t \in {fix_text(manifest_file(cur.branch),
                          IF dry_run THEN cur.manifest ELSE file_content(fixed.text),
                          legacy_packaging)},
          add_res \in LastOutcomes, commit_res \in LastOutcomes :
          /\ fixed' = fix_commit(t, manifest_file(cur.branch), target, dry_run,
                                 add_res, commit_res)
          /\ log' = log \o fixed'.events
          /\ exc' = [kind |-> fixed'.exc, at |-> "fix_manifest"]
    /\ UNCHANGED <<remote_refs, heads, common, remote_only, local_only, listing, out,
                   worktrees, git, target, dry_run, sync, prune, legacy_packaging, tree,
                   active_branch, existing_branches, todo, prune_todo, cur, faults,
                   exit_code>>

SpecFix == InitFix /\ [][FixManifest \/ FixAgain]_vars

\* the run of sync_branches ----------------------------------------------

\* the most git commands of one run that do not exit 0
MaxFailures == 1

\* a second environment branch and a target that is an environment branch
ENVB == Join(<< <<"a">>, <<"b">>, <<"c">>, <<"e">> >>, DD)
TGT4 == Join(<< <<"t">>, <<"b">>, <<"c">>, <<"d">> >>, DD)
TGT2 == Join(<< <<"t">>, <<"b">> >>, DD)

\* repo.working_dir of the primary repository and the path of a second worktree
WorkingDir == <<"/", "r">>
OtherDir == <<"/", "w">>

\* repo.branches and repo.refs list the references sorted by name
BranchOrder == <<ENV4, ENVB, main, TGT2, TGT4, SCRATCH>>
RefOrder ==
    <<RemoteName(ORIGIN, HEAD), RemoteName(ORIGIN, ENV4), RemoteName(ORIGIN, ENVB),
      RemoteName(ORIGIN, FEATURE), RemoteName(ORIGIN, main), RemoteName(ORIGIN, TGT2),
      RemoteName(ORIGIN, TGT4)>>

\* manifest=None in update_manifest(None, ...)
None == [none |-> TRUE]

\* the text write_file(manifest_file, manifest) writes: the file as it was read
raw_text(content) == <<[section |-> "file", doc |-> content.doc]>>

\* the files of a working tree after the writes among `events`
RECURSIVE apply_writes(_, _)
apply_writes(files, events) ==
    IF events = <<>> THEN files
    ELSE apply_writes(IF Head(events).op = "write"
                      THEN Put(files, Head(events).arg, file_content(Head(events).text))
                      ELSE files,
                      Tail(events))

\* update_manifest without its dry-run return
update_manifest_always(manifest, file, on_disk, tgt, dry, legacy, add_res, commit_res) ==
    The({ [exc |-> f.exc,
           events |-> (IF manifest = None THEN <<>>
                       ELSE <<WriteFile(file, raw_text(manifest))>>) \o f.events,
           fix |-> f]
        : f \in {fix_manifest(file, IF manifest = None THEN on_disk ELSE manifest,
                              tgt, FALSE, legacy, add_res, commit_res)} })

update_manifest(manifest, file, on_disk, tgt, dry, legacy, add_res, commit_res) ==
    IF dry
    THEN [exc |-> "none", events |-> <<Echo("Would update manifest", file)>>, fix |-> NoFix]
    ELSE The({ [exc |-> f.exc,
                events |-> (IF manifest = None THEN <<>>
                            ELSE <<WriteFile(file, raw_text(manifest))>>) \o f.events,
                fix |-> f]
             : f \in {fix_manifest(file, IF manifest = None THEN on_disk ELSE manifest,
                                   tgt, dry, legacy, add_res, commit_res)} })

\* a handler that swallows the exception
exit_status_zero(kind) == 0

\* sync_branches: return normally, or raise typer.Exit(1) from the handler
exit_status(kind) == IF kind = "none" THEN 0 ELSE 1

\* worktrees[branch] != repo.working_dir: a pathlib.Path is never equal to a str
differs_from_working_dir(path) == TRUE

\* what run_git does with the last execution of the command: "ok" (0 returned),
\* "nonzero" (the exit code returned) or "error" (GitCommandError raised)
how(res) ==
    IF res.rc = 0 /\ ~res.raised THEN "ok"
    ELSE IF run_git_default(res) = "return" THEN "nonzero"
    ELSE "error"

\* branch is checked out in a worktree other than the primary one
InOtherWorktree(branch) ==
    \E i \in 2..Len(listing) : listing[i][3] = <<"[">> \o branch \o <<"]">>

\* `git checkout branch` can succeed
can_checkout(branch) ==
    /\ ~InOtherWorktree(branch)
    /\ branch \in heads \/ RemoteName(ORIGIN, branch) \in remote_refs

\* the outcomes of a command that can succeed, or of one that cannot
Outcomes(possible) ==
    { r \in LastOutcomes :
        IF possible THEN r.rc = 0 \/ Len(faults) < MaxFailures
        ELSE r = Returned(1, TRUE, FALSE) }

Fault(res, at) ==
    IF res.rc = 0 THEN faults ELSE Append(faults, [at |-> at, err |-> res.err])

OkContent == Content(FALSE, EmptyMap)
ManifestKinds ==
    { None, OkContent, Content(TRUE, EmptyMap), Content(FALSE, Doc([metadata |-> Str(<<"x">>)])) }

Files(file, content) == IF content = None THEN <<>> ELSE Put(<<>>, file, content)

\* the repositories of the model: the target, the local branches besides main,
\* the branch of the second worktree, the manifest of ENV4 and the manifest of the
\* target (which main holds too)
Shape(tgt, hs, wt, env4, tm) == [target |-> tgt, heads |-> hs, wt |-> wt, env4 |-> env4, tm |-> tm]
ShapesOnMain ==
    { Shape(main, {}, None, k, None) : k \in ManifestKinds }
    \cup { Shape(main, {ENV4}, wt, k, None) : wt \in {None, [branch |-> ENV4]}, k \in ManifestKinds }
    \cup { Shape(main, {SCRATCH}, None, k, None) : k \in ManifestKinds }
    \cup { Shape(main, {ENV4, SCRATCH}, [branch |-> ENV4], OkContent, None) }
    \cup { Shape(TGT4, {}, None, OkContent, None) }
    \cup { Shape(TGT2, {TGT2}, None, OkContent, tm) : tm \in {None, OkContent} }
    \cup { Shape(TGT4, {TGT4, SCRATCH}, None, OkContent, OkContent) }
    \cup { Shape(TGT4, {TGT4}, wt, k, tm) :
             wt \in {None, [branch |-> TGT4]},
             k \in {OkContent, Content(FALSE, Doc([metadata |-> Str(<<"x">>)]))},
             tm \in {None, OkContent} }

\* the repository `shape` with branch b checked out in the primary working tree
On(shape, b) ==
    [target |-> shape.target, heads |-> shape.heads, wt |-> shape.wt, env4 |-> shape.env4,
     tm |-> shape.tm, active |-> b, remote |-> {shape.target}]

\* the repository `shape` when the remote has no branch of the name of the target
LocalTarget(shape) == [shape EXCEPT !.remote = {}]

RepoShapes ==
    { On(s, main) : s \in ShapesOnMain }
    \cup { On(Shape(main, {ENV4}, None, k, None), ENV4) : k \in {None, OkContent} }
    \cup { LocalTarget(On(Shape(TGT4, {TGT4} \cup hs, None, OkContent, OkContent), main)) :
             hs \in {{}, {SCRATCH}} }

Init ==
    /\ pc = "init"
    /\ dry_run \in BOOLEAN /\ sync \in BOOLEAN /\ prune \in BOOLEAN
    /\ legacy_packaging = FALSE
    /\ \E shape \in RepoShapes :
          /\ target = shape.target
          /\ heads = {main} \cup shape.heads
          /\ remote_refs = { RemoteName(ORIGIN, b) : b \in {HEAD, main, ENV4, ENVB, FEATURE} \cup shape.remote }
          /\ active_branch = shape.active
          /\ listing = << <<WorkingDir, <<"h">>, <<"[">> \o shape.active \o <<"]">> >> >>
                       \o (IF shape.wt = None THEN <<>>
                           ELSE << <<OtherDir, <<"h">>, <<"[">> \o shape.wt.branch \o <<"]">> >> >>)
          /\ tree = [b \in Range(BranchOrder) |->
                       IF b = ENV4 THEN Files(manifest_file(ENV4), shape.env4)
                       ELSE IF b = ENVB THEN Files(manifest_file(ENVB), OkContent)
                       ELSE IF b \in {shape.target, main}
                       THEN Files(manifest_file(shape.target), shape.tm)
                       ELSE <<>>]
    /\ out = PrintWorktreeList(listing)
    /\ worktrees = <<>>
    /\ log = <<>> /\ existing_branches = {} /\ todo = <<>> /\ prune_todo = {}
    /\ cur = NoCur /\ exc = NoExc /\ faults = <<>> /\ exit_code = 0 /\ fixed = NoFix
    /\ NoCompare /\ git = NoCall

\* what never changes in a run
Static ==
    UNCHANGED <<remote_refs, listing, out, git, target, dry_run, sync, prune, legacy_packaging>>

\* an exception leaves for the handler of sync_branches
Raise(kind, at) == pc' = "except" /\ exc' = [kind |-> kind, at |-> at]

\* a run that compares only when --sync is set
after_initialize_sync_only(s, p) == IF s THEN "compare" ELSE "sync_target"

\* sync_branches: if sync or prune: compare_branches(...)
after_initialize(s, p) == IF s \/ p THEN "compare" ELSE "sync_target"

\* a validation that accepts every target
target_exists_always(tgt, hs) == TRUE

\* repo.branches[target] raises no IndexError
target_exists(tgt, hs) == tgt \in hs

\* initialize_repo: `git worktree list`, parse_worktrees, repo.branches[target]
InitializeRepo ==
    /\ pc = "init"
    /\ \E res \in Outcomes(TRUE) :
          /\ faults' = Fault(res, "initialize_repo")
          /\ IF res.rc # 0
             THEN /\ log' = log \o <<GitCmd("primary", "worktree", <<>>)>>
                  /\ worktrees' = worktrees
                  /\ Raise("Exit", "initialize_repo")
             ELSE /\ worktrees' = parse_worktrees(out)
                  /\ IF ~target_exists(target, heads)
                     THEN /\ log' = log \o <<GitCmd("primary", "worktree", <<>>),
                                             Echo("Invalid branch", target)>>
                          /\ Raise("Exit", "initialize_repo")
                     ELSE /\ log' = log \o <<GitCmd("primary", "worktree", <<>>)>>
                          /\ pc' = after_initialize(sync, prune)
                          /\ exc' = exc
    /\ UNCHANGED <<heads, common, remote_only, local_only, tree, active_branch,
                   existing_branches, todo, prune_todo, cur, exit_code, fixed>>
    /\ Static

\* compare_branches, and the first statements of prune_local_branches
Compare ==
    /\ pc = "compare"
    /\ \E res \in Outcomes(TRUE) :
          /\ faults' = Fault(res, "compare_branches")
          /\ log' = log \o <<GitCmd("primary", "fetch", <<>>)>>
          /\ IF how(res) = "error"
             THEN /\ Raise("GitCommandError", "compare_branches")
                  /\ UNCHANGED <<common, remote_only, local_only, prune_todo>>
             ELSE LET r == compare_result(remote_refs, heads)
                  IN  /\ common' = r.common
                      /\ remote_only' = r.remote_only
                      /\ local_only' = r.local_only
                      /\ prune_todo' = IF prune THEN r.local_only ELSE {}
                      /\ pc' = IF prune /\ r.local_only # {} THEN "prune" ELSE "sync_target"
                      /\ exc' = exc
    /\ UNCHANGED <<heads, worktrees, tree, active_branch, existing_branches, todo, cur,
                   exit_code, fixed>>
    /\ Static

\* a handler that says nothing
delete_failed_silent(branch, res) == <<>>

\* prune_local_branches, "except Exception as exc": what is echoed when
\* run_git(repo, "branch", "-D", branch) raises
delete_failed(branch, res) ==
    IF how(res) = "error" THEN <<Echo("Failed to delete branch", branch)>> ELSE <<>>

\* prune_local_branches: one turn of the loop over local_only
PruneBranch ==
    /\ pc = "prune"
    /\ \E branch \in prune_todo :
          /\ prune_todo' = prune_todo \ {branch}
          /\ pc' = IF prune_todo' = {} THEN "sync_target" ELSE "prune"
          /\ IF dry_run
             THEN /\ log' = log \o <<Echo("Would delete local branch", branch)>>
                  /\ UNCHANGED <<heads, faults>>
             ELSE \E res \in Outcomes(branch # active_branch /\ ~InOtherWorktree(branch)) :
                     /\ faults' = Fault(res, "prune_local_branches")
                     /\ heads' = IF how(res) = "ok" THEN heads \ {branch} ELSE heads
                     /\ log' = log \o <<GitCmd("primary", "branch", branch)>>
                                   \o delete_failed(branch, res)
    /\ UNCHANGED <<common, remote_only, local_only, worktrees, tree, active_branch,
                   existing_branches, todo, cur, exc, exit_code, fixed>>
    /\ Static

\* sync_target_branch up to its first command
SyncTarget ==
    /\ pc = "sync_target"
    /\ IF dry_run
       THEN /\ log' = log \o <<Echo("Would sync with remote", target)>>
            /\ pc' = "print"
            /\ UNCHANGED <<exc, faults>>
       ELSE \E res \in Outcomes(TRUE) :
               LET in_worktree == worktrees # <<>> /\ target \in DOMAIN worktrees
               IN  /\ faults' = Fault(res, "sync_target_branch")
                   /\ log' = log \o <<GitCmd(IF in_worktree THEN "worktree" ELSE "primary",
                                             "fetch", target)>>
                   /\ IF how(res) = "error"
                      THEN Raise("GitCommandError", "sync_target_branch")
                      ELSE /\ pc' = IF in_worktree THEN "sync_target_pull"
                                    ELSE "sync_target_checkout"
                           /\ exc' = exc
    /\ UNCHANGED <<heads, common, remote_only, local_only, worktrees, tree, active_branch,
                   existing_branches, todo, prune_todo, cur, exit_code, fixed>>
    /\ Static

\* sync_target_branch: run_git(repo, "checkout", target)
SyncTargetCheckout ==
    /\ pc = "sync_target_checkout"
    /\ \E res \in Outcomes(can_checkout(target)) :
          /\ faults' = Fault(res, "sync_target_branch")
          /\ log' = log \o <<GitCmd("primary", "checkout", target)>>
          /\ active_branch' = IF how(res) = "ok" THEN target ELSE active_branch
          /\ IF how(res) = "error"
             THEN Raise("GitCommandError", "sync_target_branch")
             ELSE pc' = "sync_target_pull" /\ exc' = exc
    /\ UNCHANGED <<heads, common, remote_only, local_only, worktrees, tree,
                   existing_branches, todo, prune_todo, cur, exit_code, fixed>>
    /\ Static

\* sync_target_branch: run_git(..., "pull", "--rebase=false")
SyncTargetPull ==
    /\ pc = "sync_target_pull"
    /\ \E res \in Outcomes(TRUE) :
          /\ faults' = Fault(res, "sync_target_branch")
          /\ log' = log \o <<GitCmd(IF target \in DOMAIN worktrees THEN "worktree" ELSE "primary",
                                    "pull", target)>>
          /\ IF how(res) = "error"
             THEN Raise("GitCommandError", "sync_target_branch")
             ELSE pc' = "print" /\ exc' = exc
    /\ UNCHANGED <<heads, common, remote_only, local_only, worktrees, tree, active_branch,
                   existing_branches, todo, prune_todo, cur, exit_code, fixed>>
    /\ Static

\* print_environment_branches, and the first statements of process_remote_refs
PrintBranches ==
    /\ pc = "print"
    /\ log' = log \o print_environment_branches(InOrder(BranchOrder, heads))
    /\ existing_branches' = IF sync THEN heads ELSE existing_branches
    /\ todo' = IF sync THEN InOrder(RefOrder, remote_refs) ELSE todo
    /\ pc' = IF sync THEN "refs" ELSE "target_manifest"
    /\ UNCHANGED <<heads, common, remote_only, local_only, worktrees, tree, active_branch,
                   prune_todo, cur, exc, faults, exit_code, fixed>>
    /\ Static

\* process_remote_refs: one turn of the loop over all_refs
NextRef ==
    /\ pc = "refs"
    /\ IF todo = <<>>
       THEN pc' = "target_manifest" /\ UNCHANGED <<todo, log, cur>>
       ELSE /\ todo' = Tail(todo)
            /\ IF ref_processed(Head(todo), target, existing_branches)
               THEN /\ log' = log \o <<Echo("<-", ref_branch(Head(todo))),
                                       Call("process_branch", ref_branch(Head(todo)))>>
                    /\ cur' = [ref |-> Head(todo), branch |-> ref_branch(Head(todo)),
                               in_worktree |-> FALSE, manifest |-> NoCur.manifest]
                    /\ pc' = "process_branch"
               ELSE UNCHANGED <<pc, log, cur>>
    /\ UNCHANGED <<heads, common, remote_only, local_only, worktrees, tree, active_branch,
                   existing_branches, prune_todo, exc, faults, exit_code, fixed>>
    /\ Static

\* repo.active_branch.name after `git checkout branch` on the primary repository:
\* the branch, or, for a name that is no local branch and that git resolves to a
\* path of the working tree, the branch that was checked out before (git exits 0
\* and restores the path)
checkout_lands(branch, res) ==
    IF how(res) # "ok" THEN {active_branch}
    ELSE IF branch \in heads THEN {branch}
    ELSE {branch, active_branch}

\* a test that takes every checkout for the requested one
on_branch_always(active, branch) == TRUE

\* process_branch: the negation of repo.active_branch.name != branch
on_branch(active, branch) == active = branch

\* process_branch up to its first command
ProcessBranch ==
    /\ pc = "process_branch"
    /\ IF cur.branch \in DOMAIN worktrees /\ differs_from_working_dir(worktrees[cur.branch])
       THEN /\ cur' = [cur EXCEPT !.in_worktree = TRUE]
            /\ pc' = "manifest"
            /\ log' = log
       ELSE /\ cur' = cur
            /\ IF dry_run
               THEN /\ log' = log \o (IF cur.branch \notin heads
                                      THEN <<Echo("Would create branch", cur.branch)>>
                                      ELSE <<>>)
                                  \o <<Echo("Would sync branch", cur.branch)>>
                    /\ pc' = "refs"
               ELSE IF cur.branch \notin heads
               THEN /\ log' = log \o <<Echo("Creating branch", cur.branch)>>
                    /\ pc' = "create"
               ELSE /\ log' = log
                    /\ pc' = "checkout"
    /\ UNCHANGED <<heads, common, remote_only, local_only, worktrees, tree, active_branch,
                   existing_branches, todo, prune_todo, exc, faults, exit_code, fixed>>
    /\ Static

\* process_branch: run_git(repo, "checkout", branch) for a branch that is not local
ProcessBranchCreate ==
    /\ pc = "create"
    /\ \E res \in Outcomes(can_checkout(cur.branch)) :
          /\ faults' = Fault(res, "create")
          /\ log' = log \o <<GitCmd("primary", "checkout", cur.branch)>>
          /\ active_branch' \in checkout_lands(cur.branch, res)
          /\ heads' = IF active_branch' = cur.branch THEN heads \cup {cur.branch} ELSE heads
          /\ IF how(res) = "error"
             THEN Raise("GitCommandError", "create")
             ELSE pc' = "checkout" /\ exc' = exc
    /\ UNCHANGED <<common, remote_only, local_only, worktrees, tree, existing_branches,
                   todo, prune_todo, cur, exit_code, fixed>>
    /\ Static

\* process_branch: rc = run_git(repo, "checkout", branch, error_on_fail=False)
ProcessBranchCheckout ==
    /\ pc = "checkout"
    /\ \E res \in Outcomes(can_checkout(cur.branch)) :
          /\ faults' = Fault(res, "checkout")
          /\ log' = log \o <<GitCmd("primary", "checkout", cur.branch)>>
          /\ active_branch' \in checkout_lands(cur.branch, res)
          /\ heads' = IF active_branch' = cur.branch THEN heads \cup {cur.branch} ELSE heads
          /\ IF how(res) = "error"
             THEN Raise("GitCommandError", "checkout")
             ELSE /\ pc' = IF how(res) = "ok" THEN "pull" ELSE "refs"
                  /\ exc' = exc
    /\ UNCHANGED <<common, remote_only, local_only, worktrees, tree, existing_branches,
                   todo, prune_todo, cur, exit_code, fixed>>
    /\ Static

\* process_branch: rc = run_git(repo, "pull", "--rebase=false", error_on_fail=False)
ProcessBranchPull ==
    /\ pc = "pull"
    /\ \E res \in Outcomes(TRUE) :
          /\ faults' = Fault(res, "pull")
          /\ log' = log \o <<GitCmd("primary", "pull", cur.branch)>>
          /\ IF how(res) = "error"
             THEN Raise("GitCommandError", "pull")
             ELSE /\ pc' = IF how(res) = "ok" THEN "pull_tags" ELSE "refs"
                  /\ exc' = exc
    /\ UNCHANGED <<heads, common, remote_only, local_only, worktrees, tree, active_branch,
                   existing_branches, todo, prune_todo, cur, exit_code, fixed>>
    /\ Static

\* process_branch: run_git(repo, "pull", "--tags", "--force") and the test of
\* repo.active_branch.name
ProcessBranchPullTags ==
    /\ pc = "pull_tags"
    /\ \E res \in Outcomes(TRUE) :
          /\ faults' = Fault(res, "pull_tags")
          /\ IF how(res) = "error"
             THEN /\ log' = log \o <<GitCmd("primary", "pull --tags", cur.branch)>>
                  /\ Raise("GitCommandError", "pull_tags")
             ELSE /\ exc' = exc
                  /\ IF ~on_branch(active_branch, cur.branch)
                     THEN /\ log' = log \o <<GitCmd("primary", "pull --tags", cur.branch),
                                             Echo("Failed to checkout", cur.branch)>>
                          /\ pc' = "refs"
                     ELSE /\ log' = log \o <<GitCmd("primary", "pull --tags", cur.branch)>>
                          /\ pc' = "manifest"
    /\ UNCHANGED <<heads, common, remote_only, local_only, worktrees, tree, active_branch,
                   existing_branches, todo, prune_todo, cur, exit_code, fixed>>
    /\ Static

\* the files under `path` in process_branch: the worktree of the branch, which is
\* the primary working directory with whatever is checked out there when the map
\* has the branch at that path, or the primary working directory after the
\* checkout of the branch
branch_files(branch, in_wt) ==
    IF in_wt /\ worktrees[branch] = PathOf(WorkingDir)
    THEN tree[active_branch]
    ELSE tree[branch]

\* a missing manifest that is passed over in silence
no_manifest_silent(file) == <<>>

\* process_branch: typer.echo(f"Error: {target} does not have {manifest_file}", err=True)
no_manifest(file) == <<Echo("Error: does not have", file)>>

\* process_branch, "Handle manifest": the file of the branch is read where the
\* branch is checked out, then the target is checked out
ProcessBranchManifest ==
    /\ pc = "manifest"
    /\ LET file == manifest_file(cur.branch)
           files == branch_files(cur.branch, cur.in_worktree)
       IN  IF file \notin DOMAIN files
           THEN /\ log' = log \o no_manifest(file)
                /\ pc' = "refs"
                /\ UNCHANGED <<cur, active_branch, exc, faults>>
           ELSE IF dry_run
           THEN /\ log' = log \o <<Echo("Would update manifest", file)>>
                /\ pc' = "refs"
                /\ UNCHANGED <<cur, active_branch, exc, faults>>
           ELSE IF read_file(files[file]) # "none"
           THEN /\ log' = log \o <<Echo("Unmerged file", file), Echo("Failed to read", file)>>
                /\ Raise(read_file(files[file]), "read_file")
                /\ UNCHANGED <<cur, active_branch, faults>>
           ELSE \E res \in Outcomes(can_checkout(target)) :
                   /\ cur' = [cur EXCEPT !.manifest = files[file]]
                   /\ faults' = Fault(res, "checkout_target")
                   /\ log' = log \o <<GitCmd("primary", "checkout", target)>>
                   /\ active_branch' = IF how(res) = "ok" THEN target ELSE active_branch
                   /\ IF how(res) = "error"
                      THEN Raise("GitCommandError", "checkout_target")
                      ELSE /\ pc' = IF how(res) = "ok" THEN "update_manifest" ELSE "refs"
                           /\ exc' = exc
    /\ UNCHANGED <<heads, common, remote_only, local_only, worktrees, tree,
                   existing_branches, todo, prune_todo, exit_code, fixed>>
    /\ Static

\* the commands of fix_manifest that were executed and did not exit 0
fix_faults(events, add_res, commit_res) ==
    (IF add_res.rc # 0 /\ \E i \in DOMAIN events : events[i].op = "git" /\ events[i].what = "add"
     THEN <<[at |-> "add", err |-> add_res.err]>> ELSE <<>>)
    \o (IF commit_res.rc # 0
           /\ \E i \in DOMAIN events : events[i].op = "git" /\ events[i].what = "commit"
        THEN <<[at |-> "commit", err |-> commit_res.err]>> ELSE <<>>)

\* a command that is not executed has no outcome but the first
fix_outcomes(events, add_res, commit_res) ==
    /\ add_res.rc # 0 =>
          \E i \in DOMAIN events : events[i].op = "git" /\ events[i].what = "add"
    /\ commit_res.rc # 0 =>
          \E i \in DOMAIN events : events[i].op = "git" /\ events[i].what = "commit"
    /\ Len(faults) + Len(fix_faults(events, add_res, commit_res)) <= MaxFailures

\* update_manifest(manifest, manifest_file, ...) at the end of process_branch
UpdateManifest ==
    /\ pc = "update_manifest"
    /\ \E add_res \in LastOutcomes, commit_res \in LastOutcomes :
          \E u \in {update_manifest(cur.manifest, manifest_file(cur.branch), cur.manifest,
                                    target, dry_run, legacy_packaging, add_res, commit_res)} :
             /\ fix_outcomes(u.events, add_res, commit_res)
             /\ faults' = faults \o fix_faults(u.events, add_res, commit_res)
             /\ log' = log \o u.events
             /\ fixed' = u.fix
             /\ tree' = [tree EXCEPT ![active_branch] = apply_writes(@, u.events)]
             /\ IF u.exc # "none"
                THEN Raise(u.exc, "fix_manifest")
                ELSE pc' = "refs" /\ exc' = exc
    /\ UNCHANGED <<heads, common, remote_only, local_only, worktrees, active_branch,
                   existing_branches, todo, prune_todo, cur, exit_code>>
    /\ Static

\* sync_branches, "Update target manifest if not main/master", and the return
TargetManifest ==
    /\ pc = "target_manifest"
    /\ LET file == manifest_file(target)
           files == tree[active_branch]
       IN  IF target \notin {main, master} /\ file \in DOMAIN files
           THEN \E add_res \in LastOutcomes, commit_res \in LastOutcomes :
                   \E u \in {update_manifest(None, file, files[file], target, dry_run,
                                             legacy_packaging, add_res, commit_res)} :
                      /\ fix_outcomes(u.events, add_res, commit_res)
                      /\ faults' = faults \o fix_faults(u.events, add_res, commit_res)
                      /\ log' = log \o <<Call("update_manifest", file)>> \o u.events
                      /\ fixed' = IF dry_run THEN fixed ELSE u.fix
                      /\ tree' = [tree EXCEPT ![active_branch] = apply_writes(@, u.events)]
                      /\ IF u.exc # "none"
                         THEN Raise(u.exc, "fix_manifest") /\ exit_code' = exit_code
                         ELSE /\ pc' = "done"
                              /\ exit_code' = exit_status("none")
                              /\ exc' = exc
           ELSE /\ log' = log \o <<Echo("Error: branch does not have", file)>>
                /\ pc' = "done"
                /\ exit_code' = exit_status("none")
                /\ UNCHANGED <<tree, exc, faults, fixed>>
    /\ UNCHANGED <<heads, common, remote_only, local_only, worktrees, active_branch,
                   existing_branches, todo, prune_todo, cur>>
    /\ Static

\* sync_branches, "except Exception as exc": the error is echoed and the run
\* exits with code 1
Except ==
    /\ pc = "except"
    /\ log' = log \o <<Echo("Error", <<>>)>>
    /\ exit_code' = exit_status(exc.kind)
    /\ pc' = "done"
    /\ UNCHANGED <<heads, common, remote_only, local_only, worktrees, tree, active_branch,
                   existing_branches, todo, prune_todo, cur, exc, faults, fixed>>
    /\ Static

Next ==
    \/ InitializeRepo
    \/ Compare
    \/ PruneBranch
    \/ SyncTarget
    \/ SyncTargetCheckout
    \/ SyncTargetPull
    \/ PrintBranches
    \/ NextRef
    \/ ProcessBranch
    \/ ProcessBranchCreate
    \/ ProcessBranchCheckout
    \/ ProcessBranchPull
    \/ ProcessBranchPullTags
    \/ ProcessBranchManifest
    \/ UpdateManifest
    \/ TargetManifest
    \/ Except

Spec == Init /\ [][Next]_vars

----------------------------------------------------------------------------
(* The claims *)

\* C7: for every set of remote refs and of local branches, compare_branches
\* returns (common, remote_only, local_only) with common \cup remote_only the
\* remote short names, common \cup local_only the local names, common their
\* intersection, and the three sets pairwise disjoint.
C7_ComparePartition ==
    pc = "done" =>
        LET R == remote_branches(remote_refs)
            L == local_branches(heads)
        IN  /\ common \cup remote_only = R
            /\ common \cup local_only = L
            /\ common = R \cap L
            /\ common \cap remote_only = {}
            /\ common \cap local_only = {}
            /\ remote_only \cap local_only = {}

C7_Witness ==
    pc = "done" /\ common # {} /\ remote_only # {} /\ local_only # {}

\* the third column of a worktree line without the brackets that enclose it
BracketsStripped(col) ==
    IF Len(col) >= 2 /\ col[1] = "[" /\ col[Len(col)] = "]"
    THEN SubSeq(col, 2, Len(col) - 1)
    ELSE col

ThreeColumnLines == { i \in DOMAIN listing : Len(listing[i]) = 3 }

\* C8: for every worktree listing, parse_worktrees returns exactly the map
\* that takes the bracket-stripped third column of each line of exactly 3
\* columns to the first column of the last such line with that branch name.
C8_ParseWorktreesExact ==
    pc = "done" =>
        worktrees =
            [k \in { BracketsStripped(listing[i][3]) : i \in ThreeColumnLines } |->
                LET last == CHOOSE i \in ThreeColumnLines :
                                /\ BracketsStripped(listing[i][3]) = k
                                /\ \A j \in ThreeColumnLines :
                                      BracketsStripped(listing[j][3]) = k => j <= i
                IN  PathOf(listing[last][1])]

\* C9: a branch name is printed as existing, and handed to process_branch, if
\* and only if it splits into exactly 4 segments on "--".
C9_ExactlyFourSegments ==
    pc = "done" =>
        \A n \in heads :
            LET four == Len(Split(n, DD, -1)) = SEGMENTS
            IN  /\ (\E i \in DOMAIN log : log[i] = Echo("Existing branch", n)) <=> four
                /\ (\E i \in DOMAIN log : log[i] = Call("process_branch", n)) <=> four

\* C4: a call of run_git_cmd whose command raises on its first two executions
\* and returns on the third gives that result to its caller, with exactly two
\* backoff notices and no give-up summary; one whose command raises on three
\* executions gives up after the third, with the give-up summary naming 3
\* tries, and raises; no call makes a fourth execution.
C4_RetryPolicy ==
    /\ git.inner.tries <= THROTTLED_BACKOFF_MAX_TRIES
    /\ \A c \in git.cmd_calls :
          /\ c.failed_before = 2 /\ ~c.last.raised =>
                ~c.raised /\ c.notices = 2 /\ c.giveup_tries = 0
          /\ c.failed_before = 2 /\ c.last.raised =>
                c.raised /\ c.notices = 2 /\ c.giveup_tries = 3
    /\ git.entry = "run_git_cmd" /\ git.pc = "done" /\ ~git.last.raised =>
          git.result = "return" /\ git.rc = git.last.rc

C4_Witness ==
    /\ \E c \in git.cmd_calls : c.failed_before = 2 /\ ~c.last.raised /\ ~c.raised
    /\ \E c \in git.cmd_calls : c.failed_before = 2 /\ c.last.raised /\ c.giveup_tries = 3

\* C5: within one call of run_git the git command is executed at most 3 times.
C5_AtMostThreeExecutions ==
    git.entry = "run_git" => git.execs <= THROTTLED_BACKOFF_MAX_TRIES

\* C6: a command that ends with a non-zero exit code, with or without text on
\* stderr, is executed once and its exit code is returned, by run_git_cmd and
\* by run_git (called, as the script calls it, without fail_on).
C6_NonZeroExitRunsOnce ==
    (git.execs >= 1 /\ ~git.first.raised /\ git.first.rc # 0 /\ ~git.fail_on) =>
        /\ git.execs = 1
        /\ git.pc = "done" => git.result = "return" /\ git.rc = git.first.rc

\* the rule of validity for a sub-manifest entry: at least 2 fields, a name that
\* is not purely numeric, a purely numeric version that satisfies the floor
EntryValid(mft) ==
    /\ Cardinality(DOMAIN mft.map) >= 2
    /\ Has(mft, "name") /\ IsStr(mft.map["name"]) /\ ~IsDottedNumeric(mft.map["name"].str)
    /\ Has(mft, "version") /\ IsStr(mft.map["version"])
    /\ IsDottedNumeric(mft.map["version"].str)
    /\ IsVersion(mft.map["version"].str)
    /\ VersionGE(mft.map["version"].str, APP_MANIFEST_VERSION)

\* C10: for an ldx manifest with a sub-manifest entry that is invalid under the
\* rule, fix_manifest replaces the whole sub-manifest list with the two defaults.
C10_InvalidEntryReplacesList ==
    ( /\ pc = "done"
      /\ is_ldx_file(manifest_file(cur.branch))
      /\ fixed.exc = "none"
      /\ Has(cur.manifest.doc, "manifests")
      /\ \E i \in DOMAIN cur.manifest.doc.map["manifests"].list :
            ~EntryValid(cur.manifest.doc.map["manifests"].list[i]) )
    => fixed.data.map["manifests"] = List(DEFAULT_MANIFESTS)

\* the branch checked out in the primary working tree when the run starts
StartBranch == worktree_branch(listing[1][3])

\* an event of the log that changes a file, the index, the history or a branch
Mutating(e) ==
    \/ e.op = "write"
    \/ e.op = "git" /\ e.what \in {"add", "commit", "checkout", "branch"}

Echoed(what, arg) == \E i \in DOMAIN log : log[i] = Echo(what, arg)

\* C1: a run with dry-run set, whatever --sync and --prune are, writes no
\* file, commits nothing, and creates, deletes or checks out no branch; where it
\* would have deleted, synced, created or updated, it echoes a "Would ..." line.
C1_DryRunChangesNothing ==
    dry_run =>
        /\ \A i \in DOMAIN log : ~Mutating(log[i])
        /\ active_branch = StartBranch /\ main \in heads /\ fixed = NoFix
        /\ (pc = "done" /\ exit_code = 0) =>
              /\ Echoed("Would sync with remote", target)
              /\ prune => \A b \in local_only :
                    b \in heads /\ Echoed("Would delete local branch", b)
              /\ sync => \A r \in remote_refs :
                    ref_processed(r, target, existing_branches) =>
                        IF ref_branch(r) \in DOMAIN worktrees
                        THEN manifest_file(ref_branch(r))
                                \in DOMAIN branch_files(ref_branch(r), TRUE) =>
                                Echoed("Would update manifest", manifest_file(ref_branch(r)))
                        ELSE /\ Echoed("Would sync branch", ref_branch(r))
                             /\ ref_branch(r) \notin heads =>
                                   Echoed("Would create branch", ref_branch(r))
              /\ (target \notin {main, master}
                    /\ manifest_file(target) \in DOMAIN tree[active_branch]) =>
                    Echoed("Would update manifest", manifest_file(target))

C1_Witness ==
    /\ pc = "done" /\ dry_run /\ sync /\ prune /\ exit_code = 0
    /\ Echoed("Would delete local branch", SCRATCH)
    /\ Echoed("Would create branch", ENVB)
    /\ Echoed("Would sync branch", ENVB)
    /\ Echoed("Would update manifest", manifest_file(ENV4))

\* C2: a checkout or pull of process_branch that fails, with or without text
\* on stderr, raises nothing: the run does not end through it, and when nothing
\* else fails every qualifying remote ref is handed to process_branch and the
\* run exits 0.
C2_BranchFailureSkipsOnlyBranch ==
    /\ exc.kind # "none" => exc.at \notin {"checkout", "pull"}
    /\ ( /\ pc = "done"
         /\ faults # <<>>
         /\ \A i \in DOMAIN faults : faults[i].at \in {"checkout", "pull"}
         /\ fixed.exc = "none" /\ exc.at # "read_file" ) =>
            /\ exit_code = 0
            /\ \A r \in remote_refs :
                  ref_processed(r, target, existing_branches) =>
                      \E i \in DOMAIN log : log[i] = Call("process_branch", ref_branch(r))

\* C3: once fix_manifest has raised, the exception is on its way to the handler
\* of sync_branches or was handled there; the run ends with exit code 1; after
\* the "Failed to fix" line nothing is done but the echo of the error, so no
\* later branch is processed.
C3_FixFailureEndsRun ==
    fixed.exc # "none" =>
        /\ pc \in {"except", "done"}
        /\ exc = [kind |-> fixed.exc, at |-> "fix_manifest"]
        /\ pc = "done" => exit_code = 1
        /\ \E i \in DOMAIN log :
              /\ log[i].op = "echo" /\ log[i].what = "Failed to fix"
              /\ \A j \in DOMAIN log : j > i => log[j] = Echo("Error", <<>>)

C3_Witness ==
    /\ pc = "done" /\ fixed.exc # "none" /\ exit_code = 1
    /\ \E i \in DOMAIN todo : ref_processed(todo[i], target, existing_branches)

\* a sub-manifest entry whose version is a dotted-numeric string at or above
\* the floor APP_MANIFEST_VERSION
VersionAtFloor(mft) ==
    /\ Has(mft, "version") /\ IsStr(mft.map["version"])
    /\ IsDottedNumeric(mft.map["version"].str)
    /\ IsVersion(mft.map["version"].str)
    /\ VersionGE(mft.map["version"].str, APP_MANIFEST_VERSION)

\* C11: after a fix_manifest call that raised nothing, on an ldx manifest and on
\* an assets manifest alike, every entry of the sub-manifest list of the
\* document has a dotted-numeric version at or above the floor 0.5.1.
C11_VersionsSatisfyFloor ==
    (pc = "done" /\ fixed.exc = "none") =>
        \A i \in DOMAIN fixed.data.map["manifests"].list :
            VersionAtFloor(fixed.data.map["manifests"].list[i])

\* a manifest that is already normalized: metadata.version is the current
\* version, and metadata has no compatibility and no deployment_sources key
Normalized(doc) ==
    /\ IsMap(doc) /\ Has(doc, "metadata") /\ IsMap(doc.map["metadata"])
    /\ Get(doc.map["metadata"], "version", Null) = Str(VERSION)
    /\ ~Has(doc.map["metadata"], "compatibility")
    /\ ~Has(doc.map["metadata"], "deployment_sources")

\* the texts fix_manifest wrote, in the order it wrote them
Written == SelectSeq(log, LAMBDA e : e.op = "write")

\* C12: for a normalized manifest that fix_manifest fixes, fixing the text it
\* wrote raises nothing of its own and writes the identical text again.
C12_FixIsIdempotent ==
    (pc = "again" /\ ~dry_run /\ Normalized(cur.manifest.doc)) =>
        /\ fixed.exc \in {"none", "GitCommandError"}
        /\ Len(Written) = 2
        /\ Written[2].text = Written[1].text
        /\ fixed.exc = "none" => fixed.text = Written[1].text

C12_Witness ==
    /\ pc = "again" /\ ~dry_run /\ Normalized(cur.manifest.doc) /\ fixed.exc = "none"
    /\ is_ldx_file(manifest_file(cur.branch))
    /\ Has(cur.manifest.doc, "ldx") /\ Has(cur.manifest.doc, "manifests")
    /\ convert_booleans(cur.manifest.doc.map["metadata"]) # cur.manifest.doc.map["metadata"]

\* process_branch is about to read a manifest that holds the three merge markers
ReadsMarkers ==
    /\ pc = "manifest" /\ ~dry_run
    /\ manifest_file(cur.branch) \in DOMAIN branch_files(cur.branch, cur.in_worktree)
    /\ branch_files(cur.branch, cur.in_worktree)[manifest_file(cur.branch)].markers

\* C13: when the manifest read for a branch holds the unresolved merge markers,
\* the read raises typer.Exit: nothing is checked out, written or committed for
\* the branch, fix_manifest is not called for it, nothing follows in the run but
\* the echo of the error, so no later branch is processed, and the run exits
\* with code 1.
C13_MergeMarkersEndRun ==
    /\ [][ReadsMarkers =>
             /\ pc' = "except" /\ exc' = [kind |-> "Exit", at |-> "read_file"]
             /\ fixed' = fixed /\ tree' = tree /\ active_branch' = active_branch
             /\ log' = log \o <<Echo("Unmerged file", manifest_file(cur.branch)),
                                Echo("Failed to read", manifest_file(cur.branch))>>]_vars
    /\ [](exc.at = "read_file" =>
             /\ pc \in {"except", "done"}
             /\ pc = "done" => exit_code = 1
             /\ \E i \in DOMAIN log :
                   /\ log[i] = Echo("Failed to read", manifest_file(cur.branch))
                   /\ \A j \in DOMAIN log : j > i => log[j] = Echo("Error", <<>>))

C13_Witness ==
    /\ pc = "done" /\ exc.at = "read_file" /\ exit_code = 1
    /\ \E i \in DOMAIN todo : ref_processed(todo[i], target, existing_branches)

\* the target was no local branch when the run started: it is none now and the
\* run has not deleted it
TargetInvalid ==
    /\ target \notin heads
    /\ \A i \in DOMAIN log : log[i] # GitCmd("primary", "branch", target)

FixEffects ==
    SelectSeq(fixed.events,
              LAMBDA e : e.op = "write" \/ (e.op = "git" /\ e.what \in {"add", "commit"}))

\* C15: fix_manifest called with dry-run set writes no file and issues no add
\* and no commit; called without it and raising nothing, it writes the file, then
\* stages it, then commits it with a message that names the file and the target.
C15_DryRunFixDoesNothing ==
    pc = "done" =>
        /\ dry_run => FixEffects = <<>>
        /\ (~dry_run /\ fixed.exc = "none") =>
              FixEffects = <<WriteFile(manifest_file(cur.branch), fixed.text),
                             GitCmd("primary", "add", manifest_file(cur.branch)),
                             GitCmd("primary", "commit",
                                    manifest_file(cur.branch) \o <<" ">> \o target)>>

\* the index of the first call of `fn` in the log, Len(log) + 1 when there is none
FirstCall(fn) ==
    LET calls == { j \in DOMAIN log : log[j].op = "call" /\ log[j].what = fn }
    IN  IF calls = {} THEN Len(log) + 1
        ELSE CHOOSE j \in calls : \A k \in calls : j <= k

\* the step of sync_branches the i-th event of the log belongs to: 1 initialize,
\* 2 compare, 3 prune, 4 sync of the target, 5 print, 6 the environment
\* branches, 7 the manifest of the target, 8 the handler; `branches` and `last`
\* are the indexes of the first call of process_branch and of the call of
\* update_manifest by sync_branches
Step(i, branches, last) ==
    LET e == log[i]
    IN  IF e.op = "echo" /\ e.what = "Error" THEN 8
        ELSE IF (e.op = "git" /\ e.what = "worktree")
                \/ (e.op = "echo" /\ e.what = "Invalid branch") THEN 1
        ELSE IF e.op = "git" /\ e.what = "fetch" /\ e.arg = <<>> THEN 2
        ELSE IF (e.op = "git" /\ e.what = "branch")
                \/ (e.op = "echo" /\ e.what \in {"Would delete local branch",
                                                 "Failed to delete branch"}) THEN 3
        ELSE IF e.op = "echo" /\ e.what = "Would sync with remote" THEN 4
        ELSE IF e.op = "git" /\ e.what \in {"fetch", "checkout", "pull"}
                /\ i < branches /\ i < last /\ e.arg = target THEN 4
        ELSE IF e.op = "echo" /\ e.what = "Existing branch" THEN 5
        ELSE IF i >= last \/ (e.op = "echo" /\ e.what = "Error: branch does not have")
        THEN 7
        ELSE 6

\* the step of every event of the log
StepOf ==
    LET branches == FirstCall("process_branch")
        last == FirstCall("update_manifest")
    IN  [i \in DOMAIN log |-> Step(i, branches, last)]

\* the branch process_branch was last called for before the i-th event
BranchAt(i) ==
    LET calls == { j \in 1..i : log[j].op = "call" /\ log[j].what = "process_branch" }
    IN  log[CHOOSE j \in calls : \A k \in calls : k <= j].arg

C17_OnlyRemoteOnlyRefsProcessed ==
    \A i \in DOMAIN log :
        (log[i].op = "call" /\ log[i].what = "process_branch") =>
            /\ sync
            /\ log[i].arg # target
            /\ log[i].arg \notin existing_branches

\* the events of the log since the last call of process_branch
SinceCall ==
    LET calls == { j \in DOMAIN log : log[j].op = "call" /\ log[j].what = "process_branch" }
        c == CHOOSE j \in calls : \A k \in calls : k <= j
    IN  SubSeq(log, c + 1, Len(log))

\* C18: once process_branch is through with a branch that is checked out in
\* another worktree, it has run fetch and then pull on the repository at the
\* worktree path, has issued no checkout, add or commit on the primary
\* repository and has written no file in its working directory.
C18_WorktreeBranchLeavesPrimary ==
    (pc = "refs" /\ cur.in_worktree /\ ~dry_run) =>
        /\ \E i, j \in DOMAIN SinceCall :
              /\ i < j
              /\ SinceCall[i].op = "git" /\ SinceCall[i].what = "fetch"
              /\ SinceCall[i].repo = "worktree"
              /\ SinceCall[j].op = "git" /\ SinceCall[j].what = "pull"
              /\ SinceCall[j].repo = "worktree"
        /\ \A i \in DOMAIN SinceCall :
              /\ SinceCall[i].op # "write"
              /\ SinceCall[i].op = "git" =>
                    ~(SinceCall[i].repo = "primary"
                        /\ SinceCall[i].what \in {"checkout", "add", "commit"})

\* the branch is in the worktree map at the path of the primary repository
AtPrimaryPath(branch) ==
    branch \in DOMAIN worktrees /\ worktrees[branch] = PathOf(WorkingDir)

\* C19: a branch that the worktree map has at the path of the primary
\* repository is not treated as worktree-resident: process_branch checks it out
\* in the primary repository and pulls.
C19_PrimaryPathIsNoWorktree ==
    (pc = "refs" /\ ~dry_run /\ cur # NoCur /\ AtPrimaryPath(cur.branch)) =>
        /\ ~cur.in_worktree
        /\ SinceCall # <<>>
        /\ SinceCall[1] = GitCmd("primary", "checkout", cur.branch)

\* C20: when the pulls of a branch are through and the primary repository is
\* not on the requested branch, process_branch logs the failed checkout and
\* returns: the manifest handling is not entered, no file is written, nothing
\* is raised, the exit code stays as it is and the loop goes on with the
\* references that are left.
C20_MismatchAbortsBranchOnly ==
    [][(pc = "pull_tags" /\ pc' # "except" /\ active_branch # cur.branch) =>
          /\ pc' = "refs"
          /\ log' = log \o <<GitCmd("primary", "pull --tags", cur.branch),
                             Echo("Failed to checkout", cur.branch)>>
          /\ tree' = tree /\ heads' = heads /\ active_branch' = active_branch
          /\ todo' = todo /\ exc' = exc /\ exit_code' = exit_code]_vars

C20_Witness ==
    /\ pc = "done" /\ exit_code = 0
    /\ \E i, j \in DOMAIN log :
          /\ i < j
          /\ log[i].op = "echo" /\ log[i].what = "Failed to checkout"
          /\ log[j].op = "call" /\ log[j].what = "process_branch"
          /\ log[j].arg # log[i].arg

\* C21: when config/<branch>.yaml is not under the path of the branch,
\* process_branch logs the error and returns: the file is not read, no fix is
\* run, no file is written, nothing is committed, nothing is raised, the exit
\* code stays as it is and the loop goes on with the references that are left.
C21_MissingManifestSkipsBranch ==
    [][(/\ pc = "manifest"
        /\ manifest_file(cur.branch) \notin DOMAIN branch_files(cur.branch, cur.in_worktree)) =>
          /\ pc' = "refs"
          /\ log' = log \o <<Echo("Error: does not have", manifest_file(cur.branch))>>
          /\ tree' = tree /\ heads' = heads /\ active_branch' = active_branch
          /\ fixed' = fixed /\ cur' = cur
          /\ todo' = todo /\ exc' = exc /\ exit_code' = exit_code]_vars

C21_Witness ==
    /\ pc = "done" /\ exit_code = 0 /\ ~dry_run
    /\ \E i, j \in DOMAIN log :
          /\ i < j
          /\ log[i].op = "echo" /\ log[i].what = "Error: does not have"
          /\ log[j].op = "call" /\ log[j].what = "process_branch"
          /\ manifest_file(log[j].arg) # log[i].arg

\* the value of metadata.deployment.deployment_templates of a document, Null
\* when the document has none
TemplatesOf(doc) ==
    IF IsMap(doc) /\ IsMap(Get(doc, "metadata", Null))
       /\ IsMap(Get(doc.map["metadata"], "deployment", Null))
    THEN Get(doc.map["metadata"].map["deployment"], "deployment_templates", Null)
    ELSE Null

\* C22: for an ldx manifest whose metadata.deployment.deployment_templates is
\* present and is no list, fix_manifest raises and neither writes the file nor
\* stages or commits it.
C22_NonListTemplatesRejected ==
    (/\ pc = "done"
     /\ is_ldx_file(manifest_file(cur.branch))
     /\ cur.manifest.doc # NotYaml
     /\ ~IsNull(TemplatesOf(cur.manifest.doc))
     /\ ~IsList(TemplatesOf(cur.manifest.doc))) =>
        /\ fixed.exc # "none"
        /\ FixEffects = <<>>

\* a string 'true' or 'false' occurs in the value, at any depth
RECURSIVE HasBooleanString(_)
HasBooleanString(v) ==
    IF IsStr(v) THEN v.str \in {true, false}
    ELSE IF IsList(v) THEN \E i \in DOMAIN v.list : HasBooleanString(v.list[i])
    ELSE IF IsMap(v) THEN \E k \in DOMAIN v.map : HasBooleanString(v.map[k])
    ELSE FALSE

\* C23: the text a fix_manifest call builds holds the keys other than metadata
\* and manifests first, then the sub-manifest list, then metadata, and no string
\* 'true' or 'false' is left anywhere in it.
C23_SerializedInOrderWithBooleans ==
    (pc = "done" /\ fixed.exc = "none") =>
        /\ [i \in DOMAIN fixed.text |-> fixed.text[i].section]
              = <<"unspecial", "manifests", "metadata">>
        /\ DOMAIN fixed.text[1].doc.map \cap {"metadata", "manifests"} = {}
        /\ \A i \in DOMAIN fixed.text : ~HasBooleanString(fixed.text[i].doc)

\* C24: after a fix_manifest call that raised nothing, the metadata of the
\* document has no deployment_sources key.
C24_DeploymentSourcesRemoved ==
    (pc = "done" /\ fixed.exc = "none") =>
        ~Has(fixed.data.map["metadata"], "deployment_sources")

\* the notes of the metadata of a document, none when it has no list of notes
NotesOf(doc) ==
    IF IsMap(doc) /\ IsMap(Get(doc, "metadata", Null))
       /\ IsList(Get(doc.map["metadata"], "notes", Null))
    THEN doc.map["metadata"].map["notes"].list
    ELSE <<>>

\* C25: after a fix_manifest call that raised nothing, the notes of the
\* metadata are the notes of the input followed by the two fixed lines.
C25_NotesAppended ==
    (pc = "done" /\ fixed.exc = "none") =>
        NotesOf(fixed.data) = NotesOf(cur.manifest.doc) \o NOTES.list

\* the step runs `git commit` on the primary repository and the command exits 0
CommitCreated ==
    /\ \E i \in (Len(log) + 1)..Len(log') :
          log'[i].op = "git" /\ log'[i].what = "commit" /\ log'[i].repo = "primary"
    /\ \A i \in (Len(faults) + 1)..Len(faults') : faults'[i].at # "commit"

\* C26: in a run without dry-run every commit of a fixed manifest, for an
\* environment branch and for the target's own manifest at the end of the run,
\* is created while the primary repository is on the target branch.
C26_CommitsOnTarget ==
    [][(~dry_run /\ CommitCreated) => active_branch = target]_vars

\* C27: in a run with --prune and without dry-run, prune_local_branches issues
\* no deletion of the target branch, also when the target is a local branch that
\* no remote has.
C27_TargetNeverPruned ==
    (prune /\ ~dry_run) =>
        \A i \in DOMAIN log :
            (log[i].op = "git" /\ log[i].what = "branch") => log[i].arg # target

\* C28: when fix_manifest raises for the manifest of a branch before it gets to
\* its own write (anything but a failure of `git add` or `git commit`), no file
\* was written in the primary working directory since process_branch was called
\* for the branch: a manifest is written only by a fix that goes on to stage and
\* commit it.
C28_FailedFixWritesNothing ==
    (/\ pc = "except" /\ exc.at = "fix_manifest" /\ exc.kind # "GitCommandError"
     /\ FirstCall("update_manifest") > Len(log)) =>
        \A i \in DOMAIN SinceCall : SinceCall[i].op # "write"

\* the events of the log that follow the call of update_manifest for the target
AfterTargetCall == SubSeq(log, FirstCall("update_manifest") + 1, Len(log))

\* C29: when the run is over, the target is neither main nor master, its name
\* has fewer than three '--'-delimited segments and config/<target>.yaml is in
\* the primary working directory, the exit code is 1; where the run got to the
\* fix of that file, the fix raised without writing, staging or committing it.
C29_ShortTargetNameEndsRun ==
    (/\ pc = "done"
     /\ target \notin {main, master}
     /\ Len(Split(target, DD, 4)) < 3
     /\ manifest_file(target) \in DOMAIN tree[active_branch]) =>
        /\ exit_code = 1
        /\ AfterTargetCall \in {<<>>, <<Echo("Failed to fix", manifest_file(target)),
                                        Echo("Error", <<>>)>>}

\* C29 for a run without dry-run: in a dry run update_manifest announces the
\* update and returns before fix_manifest is called.
C29_ShortTargetNameEndsRealRun ==
    ~dry_run => C29_ShortTargetNameEndsRun

C29_Witness ==
    /\ pc = "done" /\ ~dry_run /\ exit_code = 1
    /\ target = TGT2 /\ manifest_file(target) \in DOMAIN tree[active_branch]
    /\ exc = [kind |-> "IndexError", at |-> "fix_manifest"]
    /\ AfterTargetCall = <<Echo("Failed to fix", manifest_file(target)), Echo("Error", <<>>)>>

\* the deletions of branch b that prune_local_branches has issued
Deletions(b) == { i \in DOMAIN log : log[i] = GitCmd("primary", "branch", b) }

\* one turn of the prune loop without dry-run: the deletion of one branch that
\* is left is issued, nothing is raised, the exit code stays as it is and the
\* loop goes on to the branches that are left, or to the target sync after the
\* last one
PruneTurn ==
    \E b \in prune_todo :
        /\ prune_todo' = prune_todo \ {b}
        /\ SubSeq(log', 1, Len(log) + 1) = log \o <<GitCmd("primary", "branch", b)>>
        /\ pc' = IF prune_todo' = {} THEN "sync_target" ELSE "prune"
        /\ exc' = exc /\ exit_code' = exit_code

\* the deletion of this turn did not exit 0; it left text on stderr
DeleteFails == Len(faults') = Len(faults) + 1
DeleteFailsLoudly == DeleteFails /\ faults'[Len(faults')].err

FailureEchoed ==
    /\ Len(log') = Len(log) + 2
    /\ log'[Len(log')].op = "echo" /\ log'[Len(log')].what = "Failed to delete branch"

\* once the prune loop is through, every local-only branch has had exactly one
\* deletion issued and no other branch has had any
PrunedOnce ==
    (pc = "sync_target" /\ prune /\ ~dry_run) =>
        /\ prune_todo = {}
        /\ \A b \in local_only : Cardinality(Deletions(b)) = 1
        /\ \A i \in DOMAIN log :
              (log[i].op = "git" /\ log[i].what = "branch") => log[i].arg \in local_only

====
